---------------------------- MODULE Spec2Model ----------------------------
(***************************************************************************)
(* A model of sopel-remind: the reminder registry kept in bot.memory, its  *)
(* CSV store, the periodic reminder_job sweep, the "in" and "at" command   *)
(* handlers, and the plugin's setup and shutdown hooks.                    *)
(*                                                                         *)
(* Text is a sequence of one-character strings, so that the regular        *)
(* expressions of backend.py can be matched position by position.          *)
(***************************************************************************)
EXTENDS Integers, Sequences, FiniteSets, TLC

(***************************************************************************)
(* Text helpers                                                            *)
(***************************************************************************)
\* Python's None, as a value comparable with a text.
None == <<"None">>

Digits == <<"0", "1", "2", "3", "4", "5", "6", "7", "8", "9">>

IsDigit(c) == \E i \in 1..10 : Digits[i] = c

IsSpace(c) == c \in {" ", "\t"}

\* The value of one decimal digit.
DigitValue(c) == (CHOOSE i \in 1..10 : Digits[i] = c) - 1

\* int(text) for a text of decimal digits.
RECURSIVE int(_)
int(text) ==
    IF text = <<>> THEN 0
    ELSE 10 * int(SubSeq(text, 1, Len(text) - 1)) + DigitValue(text[Len(text)])

\* str(n) for a natural number n.
RECURSIVE str(_)
str(n) ==
    IF n < 10 THEN <<Digits[n + 1]>>
    ELSE Append(str(n \div 10), Digits[(n % 10) + 1])

\* The first position at or after p that holds no digit (regex \d+, greedy).
RECURSIVE DigitsEnd(_, _)
DigitsEnd(s, p) ==
    IF p <= Len(s) /\ IsDigit(s[p]) THEN DigitsEnd(s, p + 1) ELSE p

\* The first position at or after p that holds no whitespace (regex \s+, greedy).
RECURSIVE SpacesEnd(_, _)
SpacesEnd(s, p) ==
    IF p <= Len(s) /\ IsSpace(s[p]) THEN SpacesEnd(s, p + 1) ELSE p

NoMatch == [ok |-> FALSE]

(***************************************************************************)
(* backend.py: the "in" grammar                                            *)
(***************************************************************************)
\* (\d+)u at position p: the captured digits and the position after it.
MatchUnit(s, p, u) ==
    LET q == DigitsEnd(s, p)
    IN  IF q > p /\ q <= Len(s) /\ s[q] = u
        THEN [ok |-> TRUE, end |-> q + 1, group |-> SubSeq(s, p, q - 1)]
        ELSE NoMatch

\* (?:\s?(\d+)u) at position p.  When the optional whitespace is taken and the
\* digits do not follow, retrying without it starts on a whitespace and fails.
MatchOptUnit(s, p, u) ==
    MatchUnit(s, IF p <= Len(s) /\ IsSpace(s[p]) THEN p + 1 ELSE p, u)

\* \s+(?P<text>\S+.*) at position p: the message tail.
MatchText(s, p) ==
    LET q == SpacesEnd(s, p)
    IN  IF q > p /\ q <= Len(s)
        THEN [ok |-> TRUE, text |-> SubSeq(s, q, Len(s))]
        ELSE NoMatch

\* The optional components `units` from position p, then the message tail, in
\* the regex engine's order: a component is taken when it matches and the rest
\* of the pattern then matches, and skipped otherwise.  `groups` collects the
\* captures, None for a component not taken.
RECURSIVE MatchOptUnits(_, _, _, _)
MatchOptUnits(s, p, units, groups) ==
    IF units = <<>>
    THEN LET t == MatchText(s, p)
         IN  IF t.ok THEN [ok |-> TRUE, groups |-> groups, text |-> t.text]
             ELSE NoMatch
    ELSE LET m == MatchOptUnit(s, p, Head(units))
             taken == IF m.ok
                      THEN MatchOptUnits(s, m.end, Tail(units),
                                         Append(groups, m.group))
                      ELSE NoMatch
         IN  IF taken.ok THEN taken
             ELSE MatchOptUnits(s, p, Tail(units), Append(groups, None))

\* One alternative of IN_TIME_PATTERN followed by the tail of IN_ARGS_PATTERN:
\* the leading component is mandatory, the later ones optional.
MatchShape(s, units) ==
    LET m == MatchUnit(s, 1, Head(units))
    IN  IF m.ok THEN MatchOptUnits(s, m.end, Tail(units), <<m.group>>)
        ELSE NoMatch

IN_SHAPES == << <<"d", "h", "m", "s">>, <<"h", "m", "s">>, <<"m", "s">>, <<"s">> >>

\* IN_RE.match(line): the first alternative that matches, with its name.
IN_RE_match(line) ==
    LET First(tries) ==
            IF \E k \in 1..4 : tries[k].ok
            THEN LET k == CHOOSE k \in 1..4 :
                            /\ tries[k].ok
                            /\ \A j \in 1..(k - 1) : ~tries[j].ok
                 IN  [ok |-> TRUE, shape |-> k, groups |-> tries[k].groups,
                      text |-> tries[k].text]
            ELSE NoMatch
    IN  First([k \in 1..4 |-> MatchShape(line, IN_SHAPES[k])])

\* int(i or 0)
IntOr0(g) == IF g = None THEN 0 ELSE int(g)

\* A timedelta that takes its minutes for hours and its hours for minutes.
timedelta_swapped(days, seconds, minutes, hours) ==
    days * 86400 + minutes * 3600 + hours * 60 + seconds

\* timedelta(days, seconds, minutes, hours), in seconds.
timedelta(days, seconds, minutes, hours) ==
    days * 86400 + hours * 3600 + minutes * 60 + seconds

\* parse_in_delta(line): ok is FALSE where the code raises ValueError.
parse_in_delta(line) ==
    LET Delta(result) ==
            IF ~result.ok THEN NoMatch
            ELSE LET g == result.groups
                     days    == IF result.shape = 1 THEN IntOr0(g[1]) ELSE 0
                     hours   == CASE result.shape = 1 -> IntOr0(g[2])
                                  [] result.shape = 2 -> IntOr0(g[1])
                                  [] OTHER -> 0
                     minutes == CASE result.shape = 1 -> IntOr0(g[3])
                                  [] result.shape = 2 -> IntOr0(g[2])
                                  [] result.shape = 3 -> IntOr0(g[1])
                                  [] OTHER -> 0
                     seconds == IntOr0(g[Len(g)])
                 IN  [ok |-> TRUE,
                      delta |-> timedelta(days, seconds, minutes, hours),
                      message |-> result.text]
    IN  Delta(IN_RE_match(line))

(***************************************************************************)
(* datetime: an aware datetime is its POSIX timestamp together with its    *)
(* timezone.                                                               *)
(***************************************************************************)
IsLeap(y) == (y % 4 = 0 /\ y % 100 # 0) \/ y % 400 = 0

DaysInMonth(y, m) ==
    CASE m \in {1, 3, 5, 7, 8, 10, 12} -> 31
      [] m \in {4, 6, 9, 11} -> 30
      [] OTHER -> IF IsLeap(y) THEN 29 ELSE 28

\* Days from 1970-01-01 to the civil date y-m-d (proleptic Gregorian).
DaysFromCivil(y, m, d) ==
    LET yy  == IF m <= 2 THEN y - 1 ELSE y
        era == yy \div 400
        yoe == yy - era * 400
        doy == (153 * (IF m > 2 THEN m - 3 ELSE m + 9) + 2) \div 5 + d - 1
        doe == yoe * 365 + yoe \div 4 - yoe \div 100 + doy
    IN  era * 146097 + doe - 719468

\* The civil date of the day z days after 1970-01-01.
CivilFromDays(z) ==
    LET zz  == z + 719468
        era == zz \div 146097
        doe == zz - era * 146097
        yoe == (doe - doe \div 1460 + doe \div 36524 - doe \div 146096) \div 365
        doy == doe - (365 * yoe + yoe \div 4 - yoe \div 100)
        mp  == (5 * doy + 2) \div 153
        d   == doy - (153 * mp + 2) \div 5 + 1
        m   == IF mp < 10 THEN mp + 3 ELSE mp - 9
        y   == yoe + era * 400 + (IF m <= 2 THEN 1 ELSE 0)
    IN  [year |-> y, month |-> m, day |-> d]

\* The digits of n, zero-padded on the left to `width`.
RECURSIVE Pad(_, _)
Pad(text, width) == IF Len(text) >= width THEN text ELSE Pad(<<"0">> \o text, width)

\* A timezone of pytz with at most one transition: the UTC offset is `before`
\* up to the instant `at` and `after` from it on.  A timezone without
\* transition has the same offset on both sides.
FixedZone(offset) == [before |-> offset, after |-> offset, at |-> 0]
UTC == FixedZone(0)

\* The UTC offset of the timezone tz at the instant ts.
utcoffset(tz, ts) == IF ts < tz.at THEN tz.before ELSE tz.after

\* user_tz.localize(naive) with is_dst=False, naive in seconds of wall clock
\* from 1970-01-01T00:00:00: the instant that shows this wall clock on the
\* one side of the transition where it exists, and at the smaller offset
\* (standard time) where it exists on both sides or on none.
localize(tz, naive) ==
    LET early == naive - tz.before
        late  == naive - tz.after
    IN  IF early < tz.at /\ ~(late >= tz.at) THEN early
        ELSE IF late >= tz.at /\ ~(early < tz.at) THEN late
        ELSE IF tz.before < tz.after THEN early
        ELSE late

\* The date of the instant ts in UTC, whatever the offset.
strftime_date_utc(ts, tz) ==
    LET Format(c) ==
            Pad(str(c.year), 4) \o <<"-">> \o Pad(str(c.month), 2) \o <<"-">>
                \o Pad(str(c.day), 2)
    IN  Format(CivilFromDays(ts \div 86400))

\* now.strftime('%Y-%m-%d') for the instant ts seen in the timezone tz.
strftime_date(ts, tz) ==
    LET Format(c) ==
            Pad(str(c.year), 4) \o <<"-">> \o Pad(str(c.month), 2) \o <<"-">>
                \o Pad(str(c.day), 2)
    IN  Format(CivilFromDays((ts + utcoffset(tz, ts)) \div 86400))

\* Midnight, whatever the instant.
strftime_midnight(ts, tz) == <<"0", "0", ":", "0", "0", ":", "0", "0">>

\* now.strftime('%H:%M:%S') for the instant ts seen in the timezone tz.
strftime_time(ts, tz) ==
    LET sod == (ts + utcoffset(tz, ts)) % 86400
    IN  Pad(str(sod \div 3600), 2) \o <<":">> \o Pad(str((sod % 3600) \div 60), 2)
            \o <<":">> \o Pad(str(sod % 60), 2)

\* A date and time read as UTC, whatever the offset.
strptime_naive(raw_date, raw_time, tz) ==
    IF /\ int(SubSeq(raw_date, 1, 4)) >= 1
       /\ int(SubSeq(raw_date, 6, 7)) \in 1..12
       /\ int(SubSeq(raw_date, 9, 10)) >= 1
       /\ int(SubSeq(raw_date, 9, 10))
              <= DaysInMonth(int(SubSeq(raw_date, 1, 4)), int(SubSeq(raw_date, 6, 7)))
       /\ int(SubSeq(raw_time, 1, 2)) <= 23
       /\ int(SubSeq(raw_time, 4, 5)) <= 59
       /\ int(SubSeq(raw_time, 7, 8)) <= 59
    THEN [ok |-> TRUE,
          timestamp |-> DaysFromCivil(int(SubSeq(raw_date, 1, 4)),
                                      int(SubSeq(raw_date, 6, 7)),
                                      int(SubSeq(raw_date, 9, 10))) * 86400
                            + int(SubSeq(raw_time, 1, 2)) * 3600
                            + int(SubSeq(raw_time, 4, 5)) * 60
                            + int(SubSeq(raw_time, 7, 8))]
    ELSE NoMatch

\* user_tz.localize(datetime.strptime(raw_date + ' ' + raw_time,
\* '%Y-%m-%d %H:%M:%S')) for texts of the shapes DATE_PATTERN and hh:mm:ss:
\* ok is FALSE where strptime or the datetime constructor raises ValueError.
strptime_localize(raw_date, raw_time, tz) ==
    LET Localize(y, mo, d, h, mi, sc) ==
            IF /\ y >= 1
               /\ mo \in 1..12
               /\ d >= 1 /\ d <= DaysInMonth(y, mo)
               /\ h <= 23 /\ mi <= 59 /\ sc <= 59
            THEN [ok |-> TRUE,
                  timestamp |-> localize(tz, DaysFromCivil(y, mo, d) * 86400
                                                 + h * 3600 + mi * 60 + sc)]
            ELSE NoMatch
    IN  Localize(int(SubSeq(raw_date, 1, 4)), int(SubSeq(raw_date, 6, 7)),
                 int(SubSeq(raw_date, 9, 10)), int(SubSeq(raw_time, 1, 2)),
                 int(SubSeq(raw_time, 4, 5)), int(SubSeq(raw_time, 7, 8)))

(***************************************************************************)
(* backend.py: the "at" grammar                                            *)
(***************************************************************************)
\* Exactly n digits at position p (regex \d{n}).
MatchDigits(s, p, n) ==
    /\ p + n - 1 <= Len(s)
    /\ \A i \in p..(p + n - 1) : IsDigit(s[i])

MatchChar(s, p, c) == p <= Len(s) /\ s[p] = c

\* DATE_PATTERN at position p: the position after it, or 0.
MatchDate(s, p) ==
    IF /\ MatchDigits(s, p, 4) /\ MatchChar(s, p + 4, "-")
       /\ MatchDigits(s, p + 5, 2) /\ MatchChar(s, p + 7, "-")
       /\ MatchDigits(s, p + 8, 2)
    THEN p + 10 ELSE 0

\* TIME_PATTERN at position p, with or without its seconds: the position after
\* it, or 0.
MatchTime(s, p, with_seconds) ==
    IF /\ MatchDigits(s, p, 2) /\ MatchChar(s, p + 2, ":")
       /\ MatchDigits(s, p + 3, 2)
    THEN IF with_seconds
         THEN IF MatchChar(s, p + 5, ":") /\ MatchDigits(s, p + 6, 2)
              THEN p + 8 ELSE 0
         ELSE p + 5
    ELSE 0

\* One alternative of AT_TIME_PATTERN followed by the tail of AT_ARGS_PATTERN,
\* with the optional seconds taken or not: the matched group and the text.
MatchAtShape(s, name, with_seconds) ==
    LET e == CASE name = "d_t" ->
                     LET q == MatchDate(s, 1)
                     IN  IF q # 0 /\ MatchChar(s, q, " ")
                         THEN MatchTime(s, q + 1, with_seconds) ELSE 0
               [] name = "t_d" ->
                     LET q == MatchTime(s, 1, with_seconds)
                     IN  IF q # 0 /\ MatchChar(s, q, " ")
                         THEN MatchDate(s, q + 1) ELSE 0
               [] name = "t" -> MatchTime(s, 1, with_seconds)
               [] OTHER -> IF with_seconds THEN 0 ELSE MatchDate(s, 1)
        Matched(end, t) ==
            IF t.ok
            THEN [ok |-> TRUE, name |-> name, group |-> SubSeq(s, 1, end - 1),
                  text |-> t.text]
            ELSE NoMatch
        Rest(end) == IF end = 0 THEN NoMatch ELSE Matched(end, MatchText(s, end))
    IN  Rest(e)

\* The alternatives in the regex engine's order: each shape first with the
\* greedy optional seconds, then without.
AT_SHAPES == << <<"d_t", TRUE>>, <<"d_t", FALSE>>, <<"t_d", TRUE>>, <<"t_d", FALSE>>,
                <<"t", TRUE>>, <<"t", FALSE>>, <<"d", FALSE>> >>

AtTry(s, k) == MatchAtShape(s, AT_SHAPES[k][1], AT_SHAPES[k][2])

\* AT_RE.match(line)
AT_RE_match(line) ==
    LET Earliest(tries) ==
            IF \E k \in 1..7 : tries[k].ok
            THEN tries[CHOOSE k \in 1..7 :
                           /\ tries[k].ok
                           /\ \A j \in 1..(k - 1) : ~tries[j].ok]
            ELSE NoMatch
    IN  Earliest([k \in 1..7 |-> AtTry(line, k)])

\* The position of the first " " of a text (str.split(' ') of "a b").
RECURSIVE FindSpace(_, _)
FindSpace(s, p) == IF p > Len(s) \/ s[p] = " " THEN p ELSE FindSpace(s, p + 1)

\* parse_at_time(line, now) with now the instant `now` localized in the
\* timezone tz: ok is FALSE where the code raises ValueError.
parse_at_time(line, now, tz) ==
    LET Future(requested_at, time_only, text) ==
            IF ~requested_at.ok THEN NoMatch
            ELSE IF requested_at.timestamp <= now
                 THEN IF time_only
                      THEN [ok |-> TRUE,
                            when |-> requested_at.timestamp + 86400,
                            message |-> text]
                      ELSE NoMatch
                 ELSE [ok |-> TRUE, when |-> requested_at.timestamp,
                       message |-> text]
        Padded(raw_time) ==
            IF Len(raw_time) = 5 THEN raw_time \o <<":", "0", "0">> ELSE raw_time
        Split(result, sp) ==
            LET first  == SubSeq(result.group, 1, sp - 1)
                second == SubSeq(result.group, sp + 1, Len(result.group))
                raw_date == CASE result.name = "t" -> strftime_date(now, tz)
                              [] result.name = "d" -> result.group
                              [] result.name = "d_t" -> first
                              [] OTHER -> second
                raw_time == CASE result.name = "t" -> result.group
                              [] result.name = "d" -> strftime_time(now, tz)
                              [] result.name = "d_t" -> second
                              [] OTHER -> first
            IN  Future(strptime_localize(raw_date, Padded(raw_time), tz),
                       result.name = "t", result.text)
        Requested(result) ==
            IF ~result.ok THEN NoMatch
            ELSE Split(result, FindSpace(result.group, 1))
    IN  Requested(AT_RE_match(line))

(***************************************************************************)
(* Bounds and input sets                                                   *)
(***************************************************************************)
\* Threads that the host runs handlers and jobs on.
NumThreads == 2
\* Reminders created by commands over a whole behaviour.
MaxAdds == 2
\* Seconds the clock advances over a whole behaviour.
MaxClock == 1
\* Times the process ends (by a crash or by a shutdown) over a whole behaviour.
MaxRestarts == 1

Threads == 1..NumThreads

\* The instant the clock starts at: 2023-06-17T10:13:10Z.
Epoch0 == DaysFromCivil(2023, 6, 17) * 86400 + 10 * 3600 + 13 * 60 + 10

Channels == {"#channel"}
Nicks == {"TestUser"}

\* Argument texts of the "in" command: a valid one and one without a message.
InArgs == { <<"0", "m", "1", "s", " ", "x">>, <<"1", "s">> }
\* Argument texts of the "at" command: one second after Epoch0 as a time of
\* day, and the date of Epoch0 alone.
AtArgs == { <<"1", "0", ":", "1", "3", ":", "1", "1", " ", "y">>,
            <<"2", "0", "2", "3", "-", "0", "6", "-", "1", "7", " ", "y">> }
\* Timezones of the requester.
TzOffsets == {UTC}

\* A trigger: where the command was sent from (a channel, or the requester for
\* a private message), who sent it, and trigger.group(2).
Triggers(senders, args) ==
    [sender : senders, nick : Nicks, args : args \cup {None}]

\* Every value bot.channels can take, and the one with everybody present.
ChannelStates == UNION {[cs -> SUBSET Nicks] : cs \in SUBSET Channels}
AllPresent == [c \in Channels |-> Nicks]

(***************************************************************************)
(* State                                                                   *)
(***************************************************************************)
MEMORY_KEY == "__sopel_remind__reminders"

VARIABLES
    phase,                  \* "down" (no process) or "up" (plugin set up)
    memory,                 \* bot.memory: a dict, keyed by MEMORY_KEY
    files,                  \* the file system: filename -> sequence of rows
    LOCK,                   \* plugin.LOCK: [owner, count] of the RLock
    clock,                  \* the wall clock, in POSIX seconds
    settled,                \* the host stays registered, everybody reachable
                            \* (set by Settle alone, for LiveSpec)
    sent,                   \* reminders handed to bot.reply / bot.say, in order
    th,                     \* per thread: its position and its locals
    nextId,                 \* history: identity of the next reminder created
    added,                  \* history: reminders whose add completed in this run
    stored,                 \* history: the store's reminders as last fully written
    atCrash,                \* history: stored and undelivered at the last crash
    last,                   \* history: the step just taken and what it read
    restarts                \* history: crashes and shutdowns so far

histVars == <<nextId, added, stored, atCrash, restarts>>
vars == <<phase, memory, files, LOCK, clock, sent, th, last, settled, histVars>>

\* A step that reads nothing of the host and ends no handler.
Quiet == [ev |-> "none"]

\* What the host holds (bot.backend.is_connected(), bot.connection_registered,
\* bot.channels, bot.users) is an input of the step that reads it, and `last`
\* keeps what that step read.

\* A thread that runs nothing.  pc is the position in the handler and op the
\* handler.  now, reminders, kept and idx are the locals of reminder_job (idx
\* the position of its for loop),
\* reminder the reminder a command built, saving and pos the reminders
\* save_reminders was given and the rows it has written.  delivered (the
\* sends of the current sweep) and writes (the save_reminders calls of the
\* current handler) are history.
Free ==
    [pc |-> "idle", op |-> "none", now |-> 0,
     reminders |-> <<>>, kept |-> <<>>, idx |-> 0, reminder |-> None,
     saving |-> <<>>, pos |-> 0, delivered |-> <<>>, writes |-> 0]

(***************************************************************************)
(* backend.py: reminders and the store                                     *)
(***************************************************************************)
\* Reminder(timestamp, destination, nick, message).  rid is a history field:
\* the identity of the reminder as created, which no code reads.
Reminder(timestamp, destination, nick, message, rid) ==
    [timestamp |-> timestamp, destination |-> destination, nick |-> nick,
     message |-> message, rid |-> rid]

\* serialize(reminder): the CSV row.
serialize(r) == <<r.timestamp, r.destination, r.nick, r.message>>

\* A writer that writes an empty row for every reminder.
writerow_blank(row, rid) == [cells |-> <<>>, rid |-> rid]

\* writer.writerow(row): every field written as its str().
writerow(row, rid) ==
    [cells |-> <<str(row[1]), row[2], row[3], row[4]>>, rid |-> rid]

\* A text int() accepts: decimal digits.
IsInt(text) == Len(text) > 0 /\ \A i \in 1..Len(text) : IsDigit(text[i])

\* A row load_reminders can unpack: at least four cells, the first an integer.
WellFormed(row) == Len(row.cells) >= 4 /\ IsInt(row.cells[1])

\* The list comprehension of load_reminders over the rows read.
RECURSIVE read_rows(_)
read_rows(rows) ==
    IF rows = <<>> THEN <<>>
    ELSE <<Reminder(int(Head(rows).cells[1]), Head(rows).cells[2],
                    Head(rows).cells[3], Head(rows).cells[4], Head(rows).rid)>>
             \o read_rows(Tail(rows))

\* get_reminder_filename(settings)
get_reminder_filename == "default.reminder.csv"

\* open(filename, 'w+'): the file is created, or emptied when it exists.
open_truncating(fs, filename) == (filename :> <<>>) @@ fs

\* open(filename, 'a+'): the file is created empty when absent.
open_append(fs, filename) ==
    IF filename \in DOMAIN fs THEN fs ELSE fs @@ (filename :> <<>>)

\* load_reminders(filename): ok is FALSE where the comprehension raises.
load_reminders(fs, filename) ==
    LET rows == open_append(fs, filename)[filename]
    IN  IF \A i \in 1..Len(rows) : WellFormed(rows[i])
        THEN [ok |-> TRUE, reminders |-> read_rows(rows)]
        ELSE NoMatch

\* open(filename, 'r+') where the file exists: its content is kept.
open_keeping(fs, filename) ==
    IF filename \in DOMAIN fs THEN fs ELSE (filename :> <<>>) @@ fs

\* open(filename, 'w'): the file is created, or truncated when it exists.
open_write(fs, filename) == (filename :> <<>>) @@ fs

\* A write that leaves `row` as the only row of the file.
write_row_alone(rows, i, row) == <<row>>

\* The rows of a file after `row` is written as its i-th row.
write_row(rows, i, row) ==
    IF i <= Len(rows) THEN [rows EXCEPT ![i] = row] ELSE Append(rows, row)

EmptyDict == [k \in {} |-> <<>>]

\* bot.memory.get(MEMORY_KEY) or []
memory_get_or_empty(mem) ==
    IF MEMORY_KEY \in DOMAIN mem THEN mem[MEMORY_KEY] ELSE <<>>

Rids(list) == {list[i].rid : i \in 1..Len(list)}
SentRids == Rids(sent)

\* The registry and the reminders the store file holds, as they are now.
Registry == memory_get_or_empty(memory)
StoreRows == IF get_reminder_filename \in DOMAIN files
             THEN files[get_reminder_filename] ELSE <<>>

Unlocked == [owner |-> 0, count |-> 0]

\* A lock that excludes nobody.
CanAcquireAnyway(t) == TRUE

\* A lock that its owner keeps when it leaves the with block.
ReleaseNever(t) == LOCK

\* LOCK.acquire() by thread t is possible: the RLock is free or t owns it.
CanAcquire(t) == LOCK.owner \in {0, t}
Acquire(t) == [owner |-> t, count |-> LOCK.count + 1]
Release(t) == IF LOCK.count = 1 THEN Unlocked
              ELSE [owner |-> t, count |-> LOCK.count - 1]

Init ==
    /\ phase = "down"
    /\ memory = EmptyDict
    /\ files = EmptyDict
    /\ LOCK = Unlocked
    /\ clock = Epoch0
    /\ settled = FALSE
    /\ sent = <<>>
    /\ th = [t \in Threads |-> Free]
    /\ nextId = 1
    /\ added = {}
    /\ stored = {}
    /\ atCrash = {}
    /\ last = Quiet
    /\ restarts = 0

\* A handler or job may start on thread t: the process is up, the host is not
\* shutting the plugin down, and t is the first free thread.
CanStart(t) ==
    /\ phase = "up"
    /\ th[t].pc = "idle"
    /\ \A u \in Threads : th[u].op # "shutdown"
    /\ \A u \in Threads : u < t => th[u].pc # "idle"

\* The process has gone: no thread is left and bot.memory is lost.
ProcessGone ==
    /\ phase' = "down"
    /\ memory' = EmptyDict
    /\ LOCK' = Unlocked
    /\ th' = [t \in Threads |-> Free]
    /\ added' = {}
    /\ restarts' = restarts + 1

(***************************************************************************)
(* backend.py: setup, store, save_reminders, shutdown                      *)
(***************************************************************************)
\* setup(bot): bot.memory[MEMORY_KEY] = load_reminders(filename).  When the
\* load raises, the plugin is not set up.
Setup ==
    /\ phase = "down"
    /\ LET loaded == load_reminders(files, get_reminder_filename)
       IN  /\ files' = open_append(files, get_reminder_filename)
           /\ IF loaded.ok
              THEN /\ memory' = (MEMORY_KEY :> loaded.reminders) @@ memory
                   /\ phase' = "up"
                   /\ stored' = Rids(loaded.reminders)
              ELSE UNCHANGED <<memory, phase, stored>>
    /\ atCrash' = {}
    /\ last' = [ev |-> "setup"]
    /\ UNCHANGED <<LOCK, clock, sent, th, settled, nextId, added, restarts>>

\* save_reminders, open(filename, 'w').
SaveOpen(t) ==
    /\ th[t].pc = "save_open"
    /\ files' = open_write(files, get_reminder_filename)
    /\ th' = [th EXCEPT ![t].pc = "save_write", ![t].pos = 0]
    /\ last' = Quiet
    /\ UNCHANGED <<phase, memory, LOCK, clock, sent, settled, histVars>>

\* save_reminders, one turn of its loop: writer.writerow(serialize(reminder)).
SaveWrite(t) ==
    /\ th[t].pc = "save_write"
    /\ th[t].pos < Len(th[t].saving)
    /\ LET r == th[t].saving[th[t].pos + 1]
       IN  files' = [files EXCEPT ![get_reminder_filename] =
                        write_row(@, th[t].pos + 1, writerow(serialize(r), r.rid))]
    /\ th' = [th EXCEPT ![t].pos = @ + 1]
    /\ last' = Quiet
    /\ UNCHANGED <<phase, memory, LOCK, clock, sent, settled, histVars>>

\* save_reminders has written every row and closes the file.
SaveFinished(t) == th[t].pc = "save_write" /\ th[t].pos = Len(th[t].saving)

\* store(bot, reminder) under `with LOCK:` (plugin.py): the lock is taken, the
\* reminder appended to the registry, and save_reminders called with it.  With
\* no registry in bot.memory the append raises KeyError, which leaves the with
\* block (releasing the lock) and ends the handler.
Store(t) ==
    /\ th[t].pc = "store"
    /\ CanAcquire(t)
    /\ IF MEMORY_KEY \in DOMAIN memory
       THEN /\ LOCK' = Acquire(t)
            /\ memory' = [memory EXCEPT ![MEMORY_KEY] = Append(@, th[t].reminder)]
            /\ th' = [th EXCEPT ![t].pc = "save_open",
                                ![t].saving = memory'[MEMORY_KEY],
                                ![t].writes = @ + 1]
            /\ last' = Quiet
       ELSE /\ th' = [th EXCEPT ![t] = Free]
            /\ last' = [ev |-> "raised"]
            /\ UNCHANGED <<LOCK, memory>>
    /\ UNCHANGED <<phase, files, clock, sent, settled, histVars>>

\* 'I will remind you that at %s' % when.strftime('%H:%M:%S'), `when` being
\* the reminder's instant in the timezone get_reminder_timezone finds: UTC
\* where the database holds none.
Confirmation(r) ==
    [text |-> "I will remind you that at %s", when |-> strftime_time(r.timestamp, UTC)]

\* store returns, the `with LOCK:` block of the command ends, and the command
\* replies 'I will remind you that at ...'.
StoreDone(t) ==
    /\ SaveFinished(t)
    /\ th[t].op \in {"in", "at"}
    /\ LOCK' = Release(t)
    /\ stored' = Rids(th[t].saving)
    /\ added' = added \cup {th[t].reminder.rid}
    /\ th' = [th EXCEPT ![t] = Free]
    /\ last' = [ev |-> "confirmed", replies |-> <<Confirmation(th[t].reminder)>>]
    /\ UNCHANGED <<phase, memory, files, clock, sent, settled, nextId, atCrash,
                   restarts>>

\* shutdown(bot), called by the host once no handler runs: save_reminders is
\* called with bot.memory.get(MEMORY_KEY) or [].
Shutdown(t) ==
    /\ phase = "up"
    /\ restarts < MaxRestarts
    /\ \A u \in Threads : th[u].pc = "idle"
    /\ t = 1
    /\ th' = [th EXCEPT ![t] = [Free EXCEPT
                                   !.op = "shutdown", !.pc = "save_open",
                                   !.saving = memory_get_or_empty(memory),
                                   !.writes = 1]]
    /\ last' = Quiet
    /\ UNCHANGED <<phase, memory, files, LOCK, clock, sent, settled, histVars>>

\* shutdown(bot) after the save: del bot.memory[MEMORY_KEY]; the process then
\* exits.
ShutdownDone(t) ==
    /\ SaveFinished(t)
    /\ th[t].op = "shutdown"
    /\ ProcessGone
    /\ stored' = Rids(th[t].saving)
    /\ last' = [ev |-> "stopped", flushed |-> th[t].saving]
    /\ UNCHANGED <<files, clock, sent, settled, nextId, atCrash>>

(***************************************************************************)
(* plugin.py: the commands                                                 *)
(***************************************************************************)
\* A reminder due at the current time, whatever the delta.
build_reminder_now(trigger, delta, message, rid) ==
    Reminder(clock, trigger.sender, trigger.nick, message, rid)

\* build_reminder(trigger, delta, message): due delta after the current time.
build_reminder(trigger, delta, message, rid) ==
    Reminder(clock + delta, trigger.sender, trigger.nick, message, rid)

\* build_at_reminder(trigger, remind_at, message)
build_at_reminder(trigger, remind_at, message, rid) ==
    Reminder(remind_at, trigger.sender, trigger.nick, message, rid)

\* A handler that answers every refused command with the apology.
RefusalAlwaysSorry(trigger) == "Sorry I didn't understand that."

\* The reply of a command that registers nothing: the prompt when
\* trigger.group(2) is None, the apology when the parser raised ValueError.
Refusal(trigger) ==
    IF trigger.args = None
    THEN "When and what would you like me to remind?"
    ELSE "Sorry I didn't understand that."

\* A command handler up to its `with LOCK:`: `parsed` is the parser's result
\* for the trigger's arguments and `built` the reminder built from it.  With
\* no arguments, or with arguments the parser rejects, the handler replies
\* once and returns; `last` records the command, its arguments and the
\* replies made.
Command(t, o, trigger, parsed, built) ==
    /\ CanStart(t)
    /\ IF trigger.args = None \/ ~parsed.ok
       THEN /\ last' = [ev |-> "refused", command |-> o, args |-> trigger.args,
                        replies |-> <<Refusal(trigger)>>]
            /\ UNCHANGED <<th, nextId>>
       ELSE /\ nextId <= MaxAdds
            /\ th' = [th EXCEPT ![t] = [Free EXCEPT
                                           !.op = o, !.pc = "store",
                                           !.reminder = built]]
            /\ nextId' = nextId + 1
            /\ last' = [ev |-> "accepted", command |-> o, trigger |-> trigger]
    /\ UNCHANGED <<phase, memory, files, LOCK, clock, sent, settled, added,
                   stored, atCrash, restarts>>

\* remind_in(bot, trigger), to the `with LOCK:`.
remind_in(t, trigger) ==
    LET HandleIn(parsed) ==
            Command(t, "in", trigger, parsed,
                    build_reminder(trigger, parsed.delta, parsed.message, nextId))
    IN  HandleIn(IF trigger.args = None THEN NoMatch
               ELSE parse_in_delta(trigger.args))

\* remind_at(bot, trigger), to the `with LOCK:`; tz is the timezone that
\* get_user_timezone finds for the requester.
remind_at(t, trigger, tz) ==
    LET HandleAt(parsed) ==
            Command(t, "at", trigger, parsed,
                    build_at_reminder(trigger, parsed.when, parsed.message, nextId))
    IN  HandleAt(IF trigger.args = None THEN NoMatch
               ELSE parse_at_time(trigger.args, clock, tz))

(***************************************************************************)
(* plugin.py: reminder_job                                                 *)
(***************************************************************************)
\* A channel delivery made without the mention of the originator.
ReplyWithoutMention(r) ==
    [call |-> "say", destination |-> r.destination, message |-> r.message,
     max_messages |-> 2, rid |-> r.rid]

\* A direct delivery made as a reply that mentions the originator.
SayWithMention(r) ==
    [call |-> "reply", destination |-> r.destination, nick |-> r.nick,
     message |-> r.message, rid |-> r.rid]

\* What bot.reply(message, destination, nick) is called with.
ReplyTo(r) ==
    [call |-> "reply", destination |-> r.destination, nick |-> r.nick,
     message |-> r.message, rid |-> r.rid]

\* What bot.say(message, destination, max_messages=2) is called with.
SayTo(r) ==
    [call |-> "say", destination |-> r.destination, message |-> r.message,
     max_messages |-> 2, rid |-> r.rid]

\* A loop body that does not look at the timestamp.
DispositionIgnoringDue(r, n, channels, users) ==
    IF r.destination \in DOMAIN channels
    THEN IF r.nick \in channels[r.destination] THEN "reply" ELSE "keep"
    ELSE IF r.destination \in users THEN "say" ELSE "keep"

\* A loop body that does not look at who is in the channel or known.
DispositionIgnoringMembers(r, n, channels, users) ==
    IF r.timestamp > n THEN "keep"
    ELSE IF r.destination \in DOMAIN channels THEN "reply" ELSE "say"

\* The body of the for loop for reminder r at the instant n, with bot.channels
\* and bot.users as given: "keep", "reply" or "say".
Disposition(r, n, channels, users) ==
    IF r.timestamp > n THEN "keep"
    ELSE IF r.destination \in DOMAIN channels
         THEN IF r.nick \in channels[r.destination] THEN "reply" ELSE "keep"
         ELSE IF r.destination \in users THEN "say" ELSE "keep"

\* A sweep that always saves.
MustSaveAlways(kept, reminders) == TRUE

\* if len(kept) != len(reminders)
MustSave(kept, reminders) == Len(kept) # Len(reminders)

\* An opening check that looks at the connection alone, and one that never
\* lets the job run.
MayRunConnected(connected, connection_registered) == connected
MayRunNever(connected, connection_registered) == FALSE

\* The check that opens reminder_job: the job returns at once unless the bot
\* is connected and registered.
MayRun(connected, connection_registered) ==
    ~(~connected \/ ~connection_registered)

\* reminder_job(bot), to the `with LOCK:`, with what bot.backend.is_connected()
\* and bot.connection_registered are at this tick.
JobBegin(t, connected, connection_registered) ==
    /\ CanStart(t)
    /\ settled => connected /\ connection_registered
    /\ IF MayRun(connected, connection_registered)
       THEN th' = [th EXCEPT ![t] = [Free EXCEPT
                                        !.op = "job", !.pc = "lock",
                                        !.now = clock]]
       ELSE UNCHANGED th
    /\ last' = [ev |-> "tick", connected |-> connected,
                registered |-> connection_registered]
    /\ UNCHANGED <<phase, memory, files, LOCK, clock, sent, settled, histVars>>

\* with LOCK: reminders = list(bot.memory[MEMORY_KEY]).  With no registry in
\* bot.memory this raises KeyError, which ends the job.
JobLock(t) ==
    /\ th[t].pc = "lock"
    /\ CanAcquire(t)
    /\ IF MEMORY_KEY \in DOMAIN memory
       THEN /\ LOCK' = Acquire(t)
            /\ th' = [th EXCEPT ![t].pc = "loop",
                                ![t].reminders = memory[MEMORY_KEY],
                                ![t].idx = 1]
            /\ last' = Quiet
       ELSE /\ th' = [th EXCEPT ![t] = Free]
            /\ last' = [ev |-> "raised"]
            /\ UNCHANGED LOCK
    /\ UNCHANGED <<phase, memory, files, clock, sent, settled, histVars>>

\* One turn of `for reminder in reminders:`, with what bot.channels and
\* bot.users are at this turn.
JobStep(t, channels, users) ==
    /\ th[t].pc = "loop"
    /\ th[t].idx <= Len(th[t].reminders)
    /\ settled => channels = AllPresent /\ users = Nicks
    /\ LET r == th[t].reminders[th[t].idx]
           d == Disposition(r, th[t].now, channels, users)
           call == IF d = "reply" THEN ReplyTo(r) ELSE SayTo(r)
       IN  /\ sent' = IF d = "keep" THEN sent ELSE Append(sent, call)
           /\ th' = [th EXCEPT
                        ![t].kept = IF d = "keep" THEN Append(@, r) ELSE @,
                        ![t].delivered = IF d = "keep" THEN @ ELSE Append(@, call),
                        ![t].idx = @ + 1]
    /\ last' = [ev |-> "turn", t |-> t, channels |-> channels, users |-> users]
    /\ UNCHANGED <<phase, memory, files, LOCK, clock, settled, histVars>>

\* What a sweep that ends leaves in `last`: its sends and its saves.
Swept(t) ==
    [ev |-> "swept", delivered |-> th[t].delivered, writes |-> th[t].writes]

\* After the loop: the registry is replaced by kept and saved when a reminder
\* was dropped; otherwise the with block ends.
JobCommit(t) ==
    /\ th[t].pc = "loop"
    /\ th[t].idx > Len(th[t].reminders)
    /\ IF MustSave(th[t].kept, th[t].reminders)
       THEN /\ memory' = (MEMORY_KEY :> th[t].kept) @@ memory
            /\ th' = [th EXCEPT ![t].pc = "save_open",
                                ![t].saving = th[t].kept,
                                ![t].writes = @ + 1]
            /\ last' = Quiet
            /\ UNCHANGED LOCK
       ELSE /\ LOCK' = Release(t)
            /\ th' = [th EXCEPT ![t] = Free]
            /\ last' = Swept(t)
            /\ UNCHANGED memory
    /\ UNCHANGED <<phase, files, clock, sent, settled, histVars>>

\* save_reminders returns to reminder_job and the with block ends.
JobDone(t) ==
    /\ SaveFinished(t)
    /\ th[t].op = "job"
    /\ LOCK' = Release(t)
    /\ stored' = Rids(th[t].saving)
    /\ th' = [th EXCEPT ![t] = Free]
    /\ last' = Swept(t)
    /\ UNCHANGED <<phase, memory, files, clock, sent, settled, nextId, added,
                   atCrash, restarts>>

(***************************************************************************)
(* The environment                                                         *)
(***************************************************************************)
\* The process dies: memory, threads and the lock go, the files stay as
\* they are.
Crash ==
    /\ phase = "up"
    /\ restarts < MaxRestarts
    /\ ProcessGone
    /\ atCrash' = stored \ SentRids
    /\ last' = [ev |-> "crashed"]
    /\ UNCHANGED <<files, clock, sent, settled, nextId, stored>>

\* One second passes.
Tick ==
    /\ clock < Epoch0 + MaxClock
    /\ clock' = clock + 1
    /\ last' = Quiet
    /\ UNCHANGED <<phase, memory, files, LOCK, sent, th, settled, histVars>>

\* Where the "in" and the "at" commands are sent from: a channel, and a
\* private message.
InSenders == Channels
AtSenders == Nicks

\* The steps of the handlers and of the job on thread t.
Handlers(t) ==
    \/ \E trigger \in Triggers(InSenders, InArgs) : remind_in(t, trigger)
    \/ \E trigger \in Triggers(AtSenders, AtArgs), tz \in TzOffsets :
          remind_at(t, trigger, tz)
    \/ Store(t)
    \/ StoreDone(t)
    \/ \E connected, connection_registered \in BOOLEAN :
          JobBegin(t, connected, connection_registered)
    \/ JobLock(t)
    \/ \E channels \in ChannelStates, users \in SUBSET Nicks :
          JobStep(t, channels, users)
    \/ JobCommit(t)
    \/ JobDone(t)
    \/ SaveOpen(t)
    \/ SaveWrite(t)

Next ==
    \/ Setup
    \/ Crash
    \/ Tick
    \/ \E t \in Threads :
          \/ Handlers(t)
          \/ Shutdown(t)
          \/ ShutdownDone(t)

Spec == Init /\ [][Next]_vars

(***************************************************************************)
(* Delivery across restarts                                                *)
(***************************************************************************)
\* C1: over any execution, crashes and stops followed by a restart included,
\* the send collaborator is invoked at most once for each reminder that was
\* added: no two entries of the log of sends are for the same reminder.
AtMostOnceDelivery ==
    \A i, j \in 1..Len(sent) : sent[i].rid = sent[j].rid => i = j

\* C2: when the process has crashed and is started again, every reminder that
\* was in the store before the crash and had not been delivered is in the
\* registry once setup has run.
NoLossOnCrash ==
    [][(phase = "down" /\ phase' = "up") => atCrash \subseteq Rids(Registry')]_vars

(***************************************************************************)
(* The sweep, turn by turn                                                 *)
(***************************************************************************)
\* This step is a turn of the for loop of the sweep on thread t.
Turn(t) == last'.ev = "turn" /\ last'.t = t

\* The reminder the next turn of the loop on thread t is about.
Current(t) == th[t].reminders[th[t].idx]

\* This step ends the sweep on thread t.
SweepEnds(t) == last'.ev = "swept" /\ th[t].op = "job" /\ th'[t].op = "none"

\* The reminders of a list, as a set.
Range(list) == {list[i] : i \in 1..Len(list)}

\* The destination of r can be delivered to, bot.channels and bot.users being
\* as given: a channel the bot is in with the originator among its members, or
\* no channel but a user the bot knows.
Reachable(r, channels, users) ==
    IF r.destination \in DOMAIN channels
    THEN r.nick \in channels[r.destination]
    ELSE r.destination \in users

\* The turn just taken, on thread t, kept the reminder it was about.
KeptLast(t) ==
    /\ th[t].kept # <<>>
    /\ th[t].kept[Len(th[t].kept)] = th[t].reminders[th[t].idx - 1]

\* C3: in every sweep a reminder whose timestamp is greater than the sweep's
\* now is kept and nothing is sent for it, whatever bot.channels and bot.users
\* hold; when the sweep ends it is in the registry.
NeverEarly ==
    [][\A t \in Threads :
          /\ (Turn(t) /\ Current(t).timestamp > th[t].now)
                => /\ sent' = sent
                   /\ th'[t].kept = Append(th[t].kept, Current(t))
          /\ SweepEnds(t)
                => \A r \in Range(th[t].reminders) :
                      r.timestamp > th[t].now => r \in Range(Registry')]_vars

\* A turn has just kept a reminder that is not due although its destination
\* could be delivered to.
NeverEarlyWitness ==
    /\ last.ev = "turn"
    /\ KeptLast(last.t)
    /\ LET r == th[last.t].reminders[th[last.t].idx - 1]
       IN  r.timestamp > th[last.t].now /\ Reachable(r, last.channels, last.users)

\* The sends a sweep made, as bot.reply and as bot.say.
Replies(delivered) == {i \in 1..Len(delivered) : delivered[i].call = "reply"}
Says(delivered) == {i \in 1..Len(delivered) : delivered[i].call = "say"}

\* Of the sends `delivered` of a sweep, those at the positions `which` are each
\* the only send of the sweep for their reminder, and that reminder is not in
\* the registry `registry`.
OnceAndGone(delivered, which, registry) ==
    \A i \in which :
        /\ delivered[i].rid \notin Rids(registry)
        /\ \A j \in 1..Len(delivered) :
              delivered[j].rid = delivered[i].rid => j = i

\* C4: in a sweep, a reminder with timestamp <= now whose destination is a
\* channel the bot is in, with the originator among its members, is sent in
\* its turn by one bot.reply to the channel that mentions the originator, and
\* is not kept; when the sweep ends it was sent once in the sweep and is not
\* in the registry.
ChannelDelivery ==
    [][\A t \in Threads :
          /\ ( /\ Turn(t)
               /\ Current(t).timestamp <= th[t].now
               /\ Current(t).destination \in DOMAIN last'.channels
               /\ Current(t).nick \in last'.channels[Current(t).destination] )
                => /\ sent' = Append(sent,
                                [call |-> "reply",
                                 destination |-> Current(t).destination,
                                 nick |-> Current(t).nick,
                                 message |-> Current(t).message,
                                 rid |-> Current(t).rid])
                   /\ th'[t].kept = th[t].kept
          /\ SweepEnds(t)
                => OnceAndGone(th[t].delivered, Replies(th[t].delivered),
                               Registry')]_vars

\* A sweep has just ended that sent a reminder to a channel, and the reminder
\* is not in the registry.
ChannelDeliveryWitness ==
    /\ last.ev = "swept"
    /\ Replies(last.delivered) # {}
    /\ OnceAndGone(last.delivered, Replies(last.delivered), Registry)

\* C5: in a sweep, a reminder with timestamp <= now whose destination is no
\* channel the bot is in but a user the bot knows is sent in its turn by one
\* bot.say to that user (in at most two messages), and is not kept; when the sweep ends it was sent
\* once in the sweep and is not in the registry.
DirectDelivery ==
    [][\A t \in Threads :
          /\ ( /\ Turn(t)
               /\ Current(t).timestamp <= th[t].now
               /\ Current(t).destination \notin DOMAIN last'.channels
               /\ Current(t).destination \in last'.users )
                => /\ sent' = Append(sent,
                                [call |-> "say",
                                 destination |-> Current(t).destination,
                                 message |-> Current(t).message,
                                 max_messages |-> 2,
                                 rid |-> Current(t).rid])
                   /\ th'[t].kept = th[t].kept
          /\ SweepEnds(t)
                => OnceAndGone(th[t].delivered, Says(th[t].delivered),
                               Registry')]_vars

\* A sweep has just ended that sent a reminder to a user, and the reminder is
\* not in the registry.
DirectDeliveryWitness ==
    /\ last.ev = "swept"
    /\ Says(last.delivered) # {}
    /\ OnceAndGone(last.delivered, Says(last.delivered), Registry)

\* C6: in a sweep, a reminder with timestamp <= now whose destination cannot
\* be delivered to (a channel the bot is in without the originator, or neither
\* a channel the bot is in nor a user it knows) is kept in its turn and
\* nothing is sent for it; when the sweep ends every reminder the sweep kept
\* is in the registry.
UnreachableRetained ==
    [][\A t \in Threads :
          /\ ( /\ Turn(t)
               /\ Current(t).timestamp <= th[t].now
               /\ ~Reachable(Current(t), last'.channels, last'.users) )
                => /\ sent' = sent
                   /\ th'[t].kept = Append(th[t].kept, Current(t))
          /\ SweepEnds(t) => Range(th[t].kept) \subseteq Range(Registry')]_vars

\* A turn has just kept a due reminder for a channel the bot is in, the
\* originator not being among its members.
UnreachableRetainedWitness ==
    /\ last.ev = "turn"
    /\ KeptLast(last.t)
    /\ LET r == th[last.t].reminders[th[last.t].idx - 1]
       IN  /\ r.timestamp <= th[last.t].now
           /\ r.destination \in DOMAIN last.channels
           /\ r.nick \notin last.channels[r.destination]

(***************************************************************************)
(* The sweep as a whole                                                    *)
(***************************************************************************)
\* C7: a tick at which the bot is not connected, or is connected but not
\* registered, sends nothing, leaves the registry as it is, writes no file
\* and starts no sweep.
NoSweepOffline ==
    [][(last'.ev = "tick" /\ (~last'.connected \/ ~last'.registered))
          => /\ sent' = sent
             /\ memory' = memory
             /\ files' = files
             /\ th' = th]_vars

\* A tick has just fired with the bot connected but not registered while the
\* registry holds a due reminder.
NoSweepOfflineWitness ==
    /\ last.ev = "tick"
    /\ last.connected /\ ~last.registered
    /\ \E r \in Range(Registry) : r.timestamp <= clock

\* The rows save_reminders writes for the reminders `list`.
RowsOf(list) ==
    [i \in 1..Len(list) |->
        [cells |-> <<str(list[i].timestamp), list[i].destination, list[i].nick,
                     list[i].message>>,
         rid |-> list[i].rid]]

\* C8: a sweep that delivered no reminder has called save_reminders zero times
\* when it ends and leaves the registry as it found it; a sweep that
\* delivered at least one reminder has called save_reminders once, the store
\* holds the rows of the reminders it kept, in order, and the registry is that
\* same sequence.
WriteCountPerSweep ==
    [][\A t \in Threads :
          SweepEnds(t) =>
              IF th[t].delivered = <<>>
              THEN /\ th[t].writes = 0
                   /\ Registry' = th[t].reminders
                   /\ files' = files
              ELSE /\ th[t].writes = 1
                   /\ StoreRows' = RowsOf(th[t].kept)
                   /\ Registry' = th[t].kept]_vars

\* A sweep has just ended that delivered a reminder and kept another, with
\* one save.
WriteCountPerSweepWitness ==
    /\ last.ev = "swept"
    /\ last.delivered # <<>>
    /\ last.writes = 1
    /\ Registry # <<>>
    /\ StoreRows = RowsOf(Registry)

(***************************************************************************)
(* Handlers and sweeps side by side                                        *)
(***************************************************************************)
\* The threads inside a `with LOCK:` block of a command or of the sweep.
InBlock ==
    {t \in Threads : /\ th[t].op \in {"in", "at", "job"}
                     /\ th[t].pc \in {"loop", "save_open", "save_write"}}

\* C10: at most one thread at a time is inside the append-and-save of an add
\* or the read-classify-replace-save of a sweep; and once every handler
\* and sweep has finished, every reminder whose add completed is in both the
\* registry and the store, or was sent by a sweep.
NoLostUpdate ==
    /\ Cardinality(InBlock) <= 1
    /\ (phase = "up" /\ \A t \in Threads : th[t].pc = "idle")
          => \A rid \in added :
                \/ rid \in SentRids
                \/ rid \in Rids(Registry) /\ rid \in Rids(StoreRows)

\* An add waits for the lock that a sweep holds while a reminder added
\* earlier is in the registry and in the store.
NoLostUpdateWitness ==
    /\ \E t, u \in Threads :
          /\ th[t].op = "job" /\ th[t].pc \in {"loop", "save_open", "save_write"}
          /\ th[u].op \in {"in", "at"} /\ th[u].pc = "store"
    /\ \E rid \in added : rid \in Rids(Registry) /\ rid \in Rids(StoreRows)

(***************************************************************************)
(* Eventual delivery                                                       *)
(***************************************************************************)
\* From here on the host stays connected and registered, every channel has
\* everybody in it and every user is known.
Settle ==
    /\ phase = "up"
    /\ ~settled
    /\ settled' = TRUE
    /\ last' = Quiet
    /\ UNCHANGED <<phase, memory, files, LOCK, clock, sent, th, histVars>>

\* The process is started and stays up.
LiveNext ==
    \/ Setup
    \/ Tick
    \/ Settle
    \/ \E t \in Threads : Handlers(t)

\* The job is run every two seconds (plugin.interval(2)) ...
Ticking ==
    \E t \in Threads, connected, connection_registered \in BOOLEAN :
        JobBegin(t, connected, connection_registered)

\* ... and a thread that has started a handler or a sweep goes on with it
\* whenever it can.
Running(t) ==
    \/ Store(t)
    \/ StoreDone(t)
    \/ JobLock(t)
    \/ \E channels \in ChannelStates, users \in SUBSET Nicks :
          JobStep(t, channels, users)
    \/ JobCommit(t)
    \/ JobDone(t)
    \/ SaveOpen(t)
    \/ SaveWrite(t)

LiveSpec ==
    /\ Init
    /\ [][LiveNext]_vars
    /\ WF_vars(Ticking)
    /\ \A t \in Threads : WF_vars(Running(t))

\* C9: once the host stays connected and registered and every destination
\* stays reachable, a reminder that is in the registry and whose timestamp
\* has passed is eventually sent and out of the registry.
EventualDelivery ==
    \A rid \in 1..MaxAdds :
        (/\ settled
         /\ \E r \in Range(Registry) : r.rid = rid /\ r.timestamp <= clock)
            ~> (rid \in SentRids /\ rid \notin Rids(Registry))

\* With the host settled, a sweep has just ended that sent a reminder, which
\* is out of the registry.
EventualDeliveryWitness ==
    /\ settled
    /\ last.ev = "swept"
    /\ last.delivered # <<>>
    /\ \A i \in 1..Len(last.delivered) : last.delivered[i].rid \notin Rids(Registry)

(***************************************************************************)
(* A send that raises                                                      *)
(***************************************************************************)
\* Calls of bot.reply and bot.say over a whole behaviour in which calls raise.
MaxSends == 3

\* One turn of `for reminder in reminders:` in which bot.reply or bot.say is
\* called and raises: nothing in reminder_job catches the exception, so it
\* leaves the for loop and the `with LOCK:` block, which releases the lock,
\* and ends the job before the registry is replaced or saved.
JobStepRaises(t, channels, users) ==
    /\ th[t].pc = "loop"
    /\ th[t].idx <= Len(th[t].reminders)
    /\ LET r == th[t].reminders[th[t].idx]
           d == Disposition(r, th[t].now, channels, users)
           call == IF d = "reply" THEN ReplyTo(r) ELSE SayTo(r)
       IN  /\ d # "keep"
           /\ Len(sent) < MaxSends
           /\ sent' = Append(sent, call)
           /\ last' = [ev |-> "send_raised", t |-> t,
                       delivered |-> Append(th[t].delivered, call)]
    /\ LOCK' = Release(t)
    /\ th' = [th EXCEPT ![t] = Free]
    /\ UNCHANGED <<phase, memory, files, clock, settled, histVars>>

\* The process stays up and a send may raise.
RaisingNext ==
    \/ Setup
    \/ Tick
    \/ \E t \in Threads :
          \/ Handlers(t)
          \/ \E channels \in ChannelStates, users \in SUBSET Nicks :
                JobStepRaises(t, channels, users)

RaisingSpec == Init /\ [][RaisingNext]_vars

\* C11: a reminder that a sweep has classified as deliverable is neither in
\* the registry nor in the store when that sweep ends, also when the call of
\* bot.reply or bot.say for it raises, and so are the reminders the sweep
\* sent before it.
FireAndForget ==
    [][last'.ev \in {"swept", "send_raised"}
          => \A i \in 1..Len(last'.delivered) :
                /\ last'.delivered[i].rid \notin Rids(Registry')
                /\ last'.delivered[i].rid \notin Rids(StoreRows')]_vars

(***************************************************************************)
(* backend.py: the CSV text of the store.  Here a text is the sequence of  *)
(* its characters, and so are the text fields of a reminder.               *)
(***************************************************************************)
\* str(n) for an integer n.
str_int(n) == IF n < 0 THEN <<"-">> \o str(-n) ELSE str(n)

\* The texts int() is given by load_reminders and accepts: an optional sign
\* and decimal digits.
IsIntText(text) ==
    /\ text # <<>>
    /\ IF text[1] \in {"-", "+"} THEN IsInt(Tail(text)) ELSE IsInt(text)

\* int(text) for such a text.
int_text(text) ==
    CASE text[1] = "-" -> 0 - int(Tail(text))
      [] text[1] = "+" -> int(Tail(text))
      [] OTHER -> int(text)

\* A field as csv.writer writes it with quoting=csv.QUOTE_ALL and
\* quotechar='"': between quotes, every quote in it doubled.
RECURSIVE csv_doubled(_)
csv_doubled(field) ==
    IF field = <<>> THEN <<>>
    ELSE (IF Head(field) = "\"" THEN <<"\"", "\"">> ELSE <<Head(field)>>)
             \o csv_doubled(Tail(field))

\* A writer that never quotes a field (csv.QUOTE_NONE without escaping).
csv_unquoted(field) == field

csv_quoted(field) == <<"\"">> \o csv_doubled(field) \o <<"\"">>

\* writer.writerow(row): the quoted fields, joined by the delimiter and ended
\* by the writer's line terminator, "\r\n".
RECURSIVE csv_joined(_)
csv_joined(fields) ==
    IF Len(fields) = 1 THEN csv_quoted(fields[1])
    ELSE csv_quoted(Head(fields)) \o <<",">> \o csv_joined(Tail(fields))

csv_writerow(fields) == csv_joined(fields) \o <<"\r", "\n">>

\* The row of a reminder with every field written as its str().
csv_row(r) == <<str_int(r.timestamp), r.destination, r.nick, r.message>>

\* The text save_reminders leaves in the file.
RECURSIVE csv_save(_)
csv_save(reminders) ==
    IF reminders = <<>> THEN <<>>
    ELSE csv_writerow(csv_row(Head(reminders))) \o csv_save(Tail(reminders))

\* The length of the line ending that starts at position p of a text read
\* with newline='': 2 for "\r\n", 1 for "\n" or "\r", 0 for none.
EolAt(text, p) ==
    IF text[p] = "\r" /\ p < Len(text) /\ text[p + 1] = "\n" THEN 2
    ELSE IF text[p] \in {"\r", "\n"} THEN 1 ELSE 0

\* csv.reader over a text from position p, to the end of one row: the fields
\* of the row and the position after it.  `state` is the state of the reader,
\* `field` the characters of the current field and `row` the fields read.  A
\* quote opens a quoted field at the start of a field; in a quoted field a
\* doubled quote is a quote, a single one ends the quoting, and delimiters
\* and line endings are characters of the field; outside it a line ending
\* ends the row, and so does the end of the text.
RECURSIVE csv_record(_, _, _, _, _)
csv_record(text, p, state, field, row) ==
    IF p > Len(text)
    THEN [row |-> Append(row, field), next |-> p]
    ELSE IF state = "in_quoted"
    THEN IF text[p] = "\""
         THEN csv_record(text, p + 1, "quote_in_quoted", field, row)
         ELSE csv_record(text, p + 1, "in_quoted", Append(field, text[p]), row)
    ELSE IF EolAt(text, p) > 0
    THEN [row |-> IF state = "start_record" THEN <<>> ELSE Append(row, field),
          next |-> p + EolAt(text, p)]
    ELSE IF text[p] = ","
    THEN csv_record(text, p + 1, "start_field", <<>>, Append(row, field))
    ELSE IF text[p] = "\"" /\ state \in {"start_record", "start_field"}
    THEN csv_record(text, p + 1, "in_quoted", <<>>, row)
    ELSE IF text[p] = "\"" /\ state = "quote_in_quoted"
    THEN csv_record(text, p + 1, "in_quoted", Append(field, "\""), row)
    ELSE csv_record(text, p + 1, "in_field", Append(field, text[p]), row)

\* csv.reader over a text from position p: the rows it yields.
RECURSIVE csv_reader(_, _)
csv_reader(text, p) ==
    IF p > Len(text) THEN <<>>
    ELSE LET Rows(record) == <<record.row>> \o csv_reader(text, record.next)
         IN  Rows(csv_record(text, p, "start_record", <<>>, <<>>))

\* The list comprehension of load_reminders over the rows csv.reader yields:
\* ok is FALSE where unpacking a row or int() raises.
RECURSIVE csv_reminders(_)
csv_reminders(rows) ==
    IF rows = <<>> THEN <<>>
    ELSE <<Reminder(int_text(Head(rows)[1]), Head(rows)[2], Head(rows)[3],
                    Head(rows)[4], 0)>> \o csv_reminders(Tail(rows))

\* A load that reads nothing.
csv_load_nothing(text) == [ok |-> TRUE, reminders |-> <<>>]

csv_load(text) ==
    LET Loaded(rows) ==
            IF \A i \in 1..Len(rows) : Len(rows[i]) >= 4 /\ IsIntText(rows[i][1])
            THEN [ok |-> TRUE, reminders |-> csv_reminders(rows)]
            ELSE NoMatch
    IN  Loaded(csv_reader(text, 1))

-----------------------------------------------------------------------------
\* save_reminders followed by load_reminders on the text of the file.

MaxRows == 2
MaxLen == 2

CsvChars == {"a", ",", "\"", " ", "\n"}
CsvMessages == UNION {[1..n -> CsvChars] : n \in 0..MaxLen}
CsvTimestamps == {0, Epoch0, -1}
CsvReminders ==
    {Reminder(ts, <<"#", "c">>, <<"n">>, m, 0) :
        ts \in CsvTimestamps, m \in CsvMessages}
CsvLists == UNION {[1..n -> CsvReminders] : n \in 0..MaxRows}

\* The file before the save: absent, or the text of an earlier save.
CsvFiles ==
    {EmptyDict,
     get_reminder_filename :> csv_save(<<Reminder(7, <<"#", "c">>, <<"n">>, <<"o">>, 0)>>)}

CsvInit ==
    /\ phase = "csv_init"
    /\ memory \in {MEMORY_KEY :> list : list \in CsvLists}
    /\ files \in CsvFiles
    /\ LOCK = Unlocked
    /\ clock = Epoch0
    /\ settled = FALSE
    /\ sent = <<>>
    /\ th = [t \in Threads |-> Free]
    /\ nextId = 1
    /\ added = {}
    /\ stored = {}
    /\ atCrash = {}
    /\ last = Quiet
    /\ restarts = 0

\* save_reminders(filename, reminders): open(filename, 'w') truncates, then
\* one line is written per reminder.
CsvSave ==
    /\ phase = "csv_init"
    /\ phase' = "csv_saved"
    /\ files' = (get_reminder_filename :> csv_save(Registry)) @@ files
    /\ last' = [ev |-> "saved"]
    /\ UNCHANGED <<memory, LOCK, clock, settled, sent, th, histVars>>

\* load_reminders(filename): the result is recorded in `last`.
CsvLoad ==
    /\ phase = "csv_saved"
    /\ phase' = "csv_loaded"
    /\ last' = [ev |-> "loaded", result |-> csv_load(files[get_reminder_filename])]
    /\ UNCHANGED <<memory, files, LOCK, clock, settled, sent, th, histVars>>

CsvNext == CsvSave \/ CsvLoad
CsvSpec == CsvInit /\ [][CsvNext]_vars

\* C12: loading the file that save_reminders wrote for a list returns that
\* list: the same reminders, in the same order, duplicates included, whatever
\* quotes, commas, spaces and line breaks the messages hold.
SaveLoadRoundTrip ==
    phase = "csv_loaded"
        => last.result = [ok |-> TRUE, reminders |-> Registry]

SaveLoadRoundTripWitness ==
    /\ phase = "csv_loaded"
    /\ last.result.ok
    /\ Len(Registry) = 2
    /\ Registry[1] = Registry[2]
    /\ Registry[1].message = <<"\"", ",">>
    /\ Registry[1].timestamp = -1
    /\ last.result.reminders = Registry

(***************************************************************************)
(* Lifecycle: shutdown and setup                                           *)
(***************************************************************************)
\* C13: shutdown saves the registry as it was when shutdown began; when it
\* completes the store holds exactly the rows of that sequence, in order, the
\* registry is no longer in bot.memory, and no step of the shutdown has sent a
\* message; a setup that follows yields a registry equal to that sequence.
FlushThenDiscard ==
    [][/\ \A t \in Threads :
            /\ (th[t].op # "shutdown" /\ th'[t].op = "shutdown")
                   => th'[t].saving = Registry
            /\ th[t].op = "shutdown" => sent' = sent
            /\ (th[t].op = "shutdown" /\ last'.ev = "stopped")
                   => /\ last'.flushed = th[t].saving
                      /\ StoreRows' = RowsOf(th[t].saving)
                      /\ MEMORY_KEY \notin DOMAIN memory'
       /\ (last.ev = "stopped" /\ last'.ev = "setup")
              => Registry' = last.flushed]_vars

\* A setup has just followed a shutdown that flushed a reminder, after an
\* earlier message was sent.
FlushThenDiscardWitness ==
    /\ last.ev = "setup"
    /\ restarts = 1
    /\ atCrash = {}
    /\ Registry # <<>>
    /\ StoreRows = RowsOf(Registry)
    /\ sent # <<>>

(***************************************************************************)
(* setup on a store file of any content                                    *)
(***************************************************************************)
MaxLines == 3

\* The lines a store file may hold, by kind: the fields of each, and the
\* blank line.
LineKinds == {"four", "signed", "five", "three", "word", "blank"}
LineFields(kind) ==
    CASE kind = "four"   -> << <<"5">>, <<"#", "c">>, <<"n">>, <<"m">> >>
      [] kind = "signed" -> << <<"-", "5">>, <<"n">>, <<"n">>, <<"k", ",">> >>
      [] kind = "five"   -> << <<"5">>, <<"#", "c">>, <<"n">>, <<"m">>, <<"x">> >>
      [] kind = "three"  -> << <<"5">>, <<"#", "c">>, <<"n">> >>
      [] kind = "word"   -> << <<"x">>, <<"#", "c">>, <<"n">>, <<"m">> >>
      [] kind = "blank"  -> <<>>
LineText(kind) ==
    IF kind = "blank" THEN <<"\r", "\n">> ELSE csv_writerow(LineFields(kind))

RECURSIVE FileText(_)
FileText(kinds) ==
    IF kinds = <<>> THEN <<>>
    ELSE LineText(Head(kinds)) \o FileText(Tail(kinds))

LoadKinds == UNION {[1..n -> LineKinds] : n \in 0..MaxLines}

\* The store file is absent, or holds up to MaxLines lines; `last` records
\* the kinds of its lines.
LoadInit ==
    /\ phase = "load_init"
    /\ memory = EmptyDict
    /\ \E kinds \in LoadKinds :
          /\ last = [ev |-> "file", lines |-> kinds]
          /\ \/ files = get_reminder_filename :> FileText(kinds)
             \/ kinds = <<>> /\ files = EmptyDict
    /\ LOCK = Unlocked
    /\ clock = Epoch0
    /\ settled = FALSE
    /\ sent = <<>>
    /\ th = [t \in Threads |-> Free]
    /\ nextId = 1
    /\ added = {}
    /\ stored = {}
    /\ atCrash = {}
    /\ restarts = 0

\* setup(bot): load_reminders opens the file with 'a+', reads it from the
\* start, and the list is put in bot.memory; where the comprehension raises,
\* bot.memory is left as it was.
LoadSetup ==
    /\ phase = "load_init"
    /\ files' = open_append(files, get_reminder_filename)
    /\ LET Loaded(result) ==
               /\ last' = [ev |-> "loaded", lines |-> last.lines,
                           result |-> result]
               /\ IF result.ok
                  THEN /\ memory' = (MEMORY_KEY :> result.reminders) @@ memory
                       /\ phase' = "load_up"
                  ELSE /\ memory' = memory
                       /\ phase' = "load_raised"
       IN  Loaded(csv_load(files'[get_reminder_filename]))
    /\ UNCHANGED <<LOCK, clock, settled, sent, th, histVars>>

LoadNext == LoadSetup
LoadSpec == LoadInit /\ [][LoadNext]_vars

\* The reminder load_reminders makes of a line of fields.
LineReminder(kind) ==
    Reminder(IF kind = "signed" THEN -5 ELSE 5, LineFields(kind)[2],
             LineFields(kind)[3], LineFields(kind)[4], 0)

\* C14: after setup the registry is the sequence of the reminders of the
\* lines of the store file, in file order; with no store file it is empty.
SetupLoadsStore ==
    phase = "load_up"
        => /\ MEMORY_KEY \in DOMAIN memory
           /\ Registry = [i \in 1..Len(last.lines) |-> LineReminder(last.lines[i])]

SetupLoadsStoreWitness ==
    /\ phase = "load_up"
    /\ last.lines = <<"signed", "four", "signed">>
    /\ Len(Registry) = 3
    /\ Registry[1].timestamp = -5
    /\ Registry[2].message = <<"m">>

\* C16: load_reminders on a path with no file creates an empty file there and
\* returns the empty sequence; on a path with a file it leaves the content
\* of the file as it is, whether the load succeeds or raises.
LoadCreatesOrKeeps ==
    [][phase = "load_init" =>
          IF get_reminder_filename \in DOMAIN files
          THEN files' = files
          ELSE /\ files' = (get_reminder_filename :> <<>>)
               /\ last'.result = [ok |-> TRUE, reminders |-> <<>>]]_vars

\* A load has created the missing file.
LoadCreatesOrKeepsWitness ==
    /\ phase = "load_up"
    /\ last.lines = <<>>
    /\ files = (get_reminder_filename :> <<>>)
    /\ Registry = <<>>

\* C17: load_reminders raises exactly when some record of the file has a
\* field count other than 4 or a timestamp that is not an integer.
LoadRaisesOnMalformed ==
    phase \in {"load_up", "load_raised"}
        => (last.result.ok
               <=> \A i \in 1..Len(last.lines) :
                      last.lines[i] \in {"four", "signed"})

(***************************************************************************)
(* store                                                                   *)
(***************************************************************************)
\* C15: store(bot, r) appends r at the end of the registry, the earlier
\* entries unchanged and in order, and when it returns the registry is still
\* that sequence and loading the store file returns exactly it.
StoreAppendsAndPersists ==
    [][\A t \in Threads :
          /\ (th[t].pc = "store" /\ th'[t].pc = "save_open")
                 => /\ Registry' = Append(Registry, th[t].reminder)
                    /\ th'[t].saving = Registry'
          /\ (th[t].op \in {"in", "at"} /\ th[t].pc = "save_write"
                  /\ th'[t].pc = "idle" /\ last'.ev = "confirmed")
                 => /\ Registry' = th[t].saving
                    /\ load_reminders(files', get_reminder_filename)
                           = [ok |-> TRUE, reminders |-> Registry']]_vars

\* A store has just returned with a registry of two reminders that the store
\* file holds.
StoreAppendsAndPersistsWitness ==
    /\ last.ev = "confirmed"
    /\ Len(Registry) = 2
    /\ Registry[1] # Registry[2]
    /\ load_reminders(files, get_reminder_filename).reminders = Registry

(***************************************************************************)
(* The commands                                                            *)
(***************************************************************************)
\* C18: an "in" or "at" command with no argument text makes exactly one
\* reply, the prompt; one whose arguments the parser rejects makes exactly
\* one reply, the apology, and the handler returns there; in both cases the
\* registry, the store file and the running handlers are left as they were.
RefusedLeavesState ==
    [][last'.ev = "refused" =>
          /\ last'.replies =
                 IF last'.args = None
                 THEN <<"When and what would you like me to remind?">>
                 ELSE <<"Sorry I didn't understand that.">>
          /\ last'.args # None =>
                 IF last'.command = "in"
                 THEN ~parse_in_delta(last'.args).ok
                 ELSE \E tz \in TzOffsets : ~parse_at_time(last'.args, clock, tz).ok
          /\ memory' = memory
          /\ files' = files
          /\ sent' = sent
          /\ th' = th]_vars

\* An "at" command was refused for its arguments while the registry and the
\* store held a reminder.
RefusedLeavesStateWitness ==
    /\ last.ev = "refused"
    /\ last.command = "at"
    /\ last.args # None
    /\ last.replies = <<"Sorry I didn't understand that.">>
    /\ Registry # <<>>
    /\ StoreRows = RowsOf(Registry)

\* C19: a command whose arguments parse builds one reminder whose destination
\* is where the command was sent from, whose originator is the requester,
\* whose message is the parsed tail and whose timestamp is the resolved
\* instant (for "in": the current time plus the parsed duration); store adds
\* exactly that reminder at the end of the registry, and the handler ends
\* with exactly one reply, the confirmation.
AcceptedRegistersOne ==
    [][\A t \in Threads :
          /\ (th[t].pc = "idle" /\ th'[t].pc = "store")
                 => /\ last'.ev = "accepted"
                    /\ last'.command = th'[t].op
                    /\ th'[t].reminder.destination = last'.trigger.sender
                    /\ th'[t].reminder.nick = last'.trigger.nick
                    /\ IF th'[t].op = "in"
                       THEN LET Built(p) ==
                                    /\ p.ok
                                    /\ th'[t].reminder.message = p.message
                                    /\ th'[t].reminder.timestamp = clock + p.delta
                            IN  Built(parse_in_delta(last'.trigger.args))
                       ELSE \E tz \in TzOffsets :
                               LET Built(p) ==
                                       /\ p.ok
                                       /\ th'[t].reminder.message = p.message
                                       /\ th'[t].reminder.timestamp = p.when
                               IN  Built(parse_at_time(last'.trigger.args, clock, tz))
                    /\ Registry' = Registry
          /\ (th[t].pc = "store" /\ th'[t].pc = "save_open")
                 => /\ Len(Registry') = Len(Registry) + 1
                    /\ Registry' = Append(Registry, th[t].reminder)
          /\ (th[t].op \in {"in", "at"} /\ th[t].pc \notin {"idle", "store"})
                 => \/ Registry' = Registry
                    \/ phase' = "down"
          /\ (th[t].op \in {"in", "at"} /\ th[t].pc = "save_write"
                  /\ th'[t].pc = "idle" /\ phase' = "up")
                 => /\ last'.ev = "confirmed"
                    /\ Len(last'.replies) = 1
                    /\ last'.replies[1].when
                           = strftime_time(th[t].reminder.timestamp, UTC)]_vars

\* An "in" command sent one second before has been confirmed: its reminder
\* is the last of a registry of two.
AcceptedRegistersOneWitness ==
    /\ last.ev = "confirmed"
    /\ Len(Registry) = 2
    /\ Registry[2].destination = "#channel"
    /\ Registry[2].nick = "TestUser"
    /\ Registry[2].message = <<"x">>
    /\ Registry[2].timestamp = clock + 1
    /\ clock = Epoch0
    /\ last.replies = <<Confirmation(Registry[2])>>

(***************************************************************************)
(* plugin.py: configure and migrate_builtin                                *)
(***************************************************************************)
\* The file of the built-in remind plugin and the name configure gives it
\* once migrated.
builtin_filename == "default.reminders.db"
backup_name == "default.reminders.db.bk"

\* A text file opened with io.open(from_file, 'r'), read from position p to
\* the end of one line: the line with its line ending, read as "\n", and the
\* position after it.
RECURSIVE database_line(_, _, _)
database_line(text, p, line) ==
    IF p > Len(text) THEN [line |-> line, next |-> p]
    ELSE IF EolAt(text, p) > 0
    THEN [line |-> Append(line, "\n"), next |-> p + EolAt(text, p)]
    ELSE database_line(text, p + 1, Append(line, text[p]))

\* The lines of the file from position p on.
RECURSIVE database_lines(_, _)
database_lines(text, p) ==
    IF p > Len(text) THEN <<>>
    ELSE LET Lines(read) == <<read.line>> \o database_lines(text, read.next)
         IN  Lines(database_line(text, p, <<>>))

\* line.split('\t', n) from position p on.
RECURSIVE split_tab(_, _, _, _, _)
split_tab(line, p, n, field, parts) ==
    IF p > Len(line) THEN Append(parts, field)
    ELSE IF line[p] = "\t" /\ n > 0
    THEN split_tab(line, p + 1, n - 1, <<>>, Append(parts, field))
    ELSE split_tab(line, p + 1, n, Append(field, line[p]), parts)

\* message.rstrip('\n')
RECURSIVE rstrip_newline(_)
rstrip_newline(message) ==
    IF message # <<>> /\ message[Len(message)] = "\n"
    THEN rstrip_newline(SubSeq(message, 1, Len(message) - 1))
    ELSE message

\* Where the "." of a text is, or 0.
DotAt(text) ==
    IF \E i \in 1..Len(text) : text[i] = "."
    THEN CHOOSE i \in 1..Len(text) :
             text[i] = "." /\ \A j \in 1..(i - 1) : text[j] # "."
    ELSE 0

\* The texts float() is given by migrate_builtin and accepts: decimal
\* digits, with an optional fraction of decimal digits.
IsFloatText(text) ==
    IF DotAt(text) = 0 THEN IsInt(text)
    ELSE /\ IsInt(SubSeq(text, 1, DotAt(text) - 1))
         /\ IsInt(SubSeq(text, DotAt(text) + 1, Len(text)))

\* int(float(unixtime)) for such a text: the fraction is dropped.
int_float(text) ==
    IF DotAt(text) = 0 THEN int(text) ELSE int(SubSeq(text, 1, DotAt(text) - 1))

\* The loop of migrate_builtin over the lines of the database: ok is FALSE
\* where the unpacking of line.split('\t', 3) or float() raises ValueError.
RECURSIVE builtin_reminders(_)
builtin_reminders(lines) ==
    IF lines = <<>> THEN [ok |-> TRUE, reminders |-> <<>>]
    ELSE LET Rest(parts, rest) ==
                 IF Len(parts) = 4 /\ IsFloatText(parts[1]) /\ rest.ok
                 THEN [ok |-> TRUE,
                       reminders |->
                           <<Reminder(int_float(parts[1]), parts[2], parts[3],
                                      rstrip_newline(parts[4]), 0)>>
                               \o rest.reminders]
                 ELSE NoMatch
         IN  Rest(split_tab(Head(lines), 1, 3, <<>>, <<>>),
                  builtin_reminders(Tail(lines)))

\* migrate_builtin from the list `existing` on: the reminders of from_file
\* are appended to it and the whole is saved to to_file; return_value is the
\* number of the last line read.  Where a line raises, nothing is saved.
migrate_onto(existing, fs, from_file, to_file) ==
    LET Migrated(imported) ==
            IF existing.ok /\ imported.ok
            THEN [ok |-> TRUE,
                  files |-> (to_file :> csv_save(existing.reminders
                                                     \o imported.reminders)) @@ fs,
                  return_value |-> Len(imported.reminders)]
            ELSE [ok |-> FALSE, files |-> fs, return_value |-> 0]
    IN  Migrated(builtin_reminders(database_lines(fs[from_file], 1)))

\* A migration that starts from an empty list.
migrate_over(fs, from_file, to_file) ==
    migrate_onto([ok |-> TRUE, reminders |-> <<>>],
                 open_append(fs, to_file), from_file, to_file)

\* migrate_builtin(from_file, to_file): the list starts as
\* load_reminders(to_file), which creates to_file when it is absent.
migrate_builtin(fs, from_file, to_file) ==
    migrate_onto(csv_load(open_append(fs, to_file)[to_file]),
                 open_append(fs, to_file), from_file, to_file)

\* A rename that does nothing.
rename_nothing(fs, src, dst) == fs

\* A rename that leaves the source in place: a copy.
rename_copy(fs, src, dst) == (dst :> fs[src]) @@ fs

\* os.rename(src, dst)
rename(fs, src, dst) ==
    [name \in (DOMAIN fs \ {src}) \cup {dst} |->
        IF name = dst THEN fs[src] ELSE fs[name]]

\* The lines a database of the built-in plugin may hold, by kind.
BuiltinKinds == {"whole", "fraction", "short", "word"}
BuiltinLine(kind) ==
    CASE kind = "whole"    -> <<"7", "\t", "#", "c", "\t", "n", "\t", "m">>
      [] kind = "fraction" -> <<"8", ".", "5", "\t", "n", "\t", "n", "\t",
                                "a", "\t", "\"", ",">>
      [] kind = "short"    -> <<"7", "\t", "#", "c", "\t", "n">>
      [] kind = "word"     -> <<"x", "\t", "#", "c", "\t", "n", "\t", "m">>

\* The text of a database of these lines, "\n" between them, and at the end
\* where `ended` holds.
RECURSIVE BuiltinText(_, _)
BuiltinText(kinds, ended) ==
    IF kinds = <<>> THEN <<>>
    ELSE BuiltinLine(Head(kinds))
             \o (IF Tail(kinds) # <<>> \/ ended THEN <<"\n">> ELSE <<>>)
             \o BuiltinText(Tail(kinds), ended)

\* The reminder migrate_builtin makes of a line.
BuiltinReminder(kind) ==
    IF kind = "fraction"
    THEN Reminder(8, <<"n">>, <<"n">>, <<"a", "\t", "\"", ",">>, 0)
    ELSE Reminder(7, <<"#", "c">>, <<"n">>, <<"m">>, 0)

MigrateKinds == UNION {[1..n -> BuiltinKinds] : n \in 0..MaxLines}
StoredReminders ==
    {Reminder(5, <<"#", "c">>, <<"n">>, <<"m">>, 0),
     Reminder(7, <<"n">>, <<"n">>, <<"\"", ",">>, 0)}
StoredLists == UNION {[1..n -> StoredReminders] : n \in 0..MaxRows}

\* Before configure: the store file is absent or holds a saved list, and the
\* database of the built-in plugin is absent or holds up to MaxLines lines;
\* `last` records the list and the kinds of the lines.
ConfigureInit ==
    /\ phase = "configure_init"
    /\ memory = EmptyDict
    /\ \E list \in StoredLists, kinds \in MigrateKinds, ended, exists \in BOOLEAN :
          /\ last = [ev |-> "files", stored |-> list, lines |-> kinds]
          /\ kinds = <<>> => ended
          /\ ~exists => kinds = <<>>
          /\ LET database == IF exists
                             THEN builtin_filename :> BuiltinText(kinds, ended)
                             ELSE EmptyDict
             IN  \/ files = (get_reminder_filename :> csv_save(list)) @@ database
                 \/ list = <<>> /\ files = database
    /\ LOCK = Unlocked
    /\ clock = Epoch0
    /\ settled = FALSE
    /\ sent = <<>>
    /\ th = [t \in Threads |-> Free]
    /\ nextId = 1
    /\ added = {}
    /\ stored = {}
    /\ atCrash = {}
    /\ restarts = 0

\* configure(settings), `migrate` being the answer to its question: the
\* database is migrated where it exists, then renamed.
configure(migrate) ==
    /\ phase = "configure_init"
    /\ LET Asked == [stored |-> last.stored, lines |-> last.lines,
                     accepted |-> migrate,
                     existed |-> builtin_filename \in DOMAIN files]
       IN  IF migrate /\ builtin_filename \in DOMAIN files
           THEN LET Renamed(m) ==
                        IF m.ok
                        THEN /\ files' = rename(m.files, builtin_filename,
                                                backup_name)
                             /\ phase' = "configured"
                             /\ last' = [ev |-> "migrated",
                                         migrated |-> m.return_value] @@ Asked
                        ELSE /\ files' = m.files
                             /\ phase' = "configure_raised"
                             /\ last' = [ev |-> "raised"] @@ Asked
                IN  Renamed(migrate_builtin(files, builtin_filename,
                                            get_reminder_filename))
           ELSE /\ files' = files
                /\ phase' = "configured"
                /\ last' = [ev |-> "kept", migrated |-> 0] @@ Asked
    /\ UNCHANGED <<memory, LOCK, clock, settled, sent, th, histVars>>

\* setup(bot) once configured: the store is loaded into bot.memory.
ConfiguredSetup ==
    /\ phase = "configured"
    /\ files' = open_append(files, get_reminder_filename)
    /\ LET Loaded(result) ==
               IF result.ok
               THEN /\ memory' = (MEMORY_KEY :> result.reminders) @@ memory
                    /\ phase' = "configured_up"
               ELSE /\ memory' = memory
                    /\ phase' = "configure_raised"
       IN  Loaded(csv_load(files'[get_reminder_filename]))
    /\ last' = last
    /\ UNCHANGED <<LOCK, clock, settled, sent, th, histVars>>

ConfigureNext == (\E migrate \in BOOLEAN : configure(migrate)) \/ ConfiguredSetup
ConfigureSpec == ConfigureInit /\ [][ConfigureNext]_vars

\* C20: a migration of a database of N well-formed lines into a store that
\* holds the sequence S returns N and leaves the store holding S followed by
\* the N reminders of the lines, in the order of the lines.
MigrationAppends ==
    /\ (phase = "configure_init" /\ builtin_filename \in DOMAIN files
            /\ \A i \in 1..Len(last.lines) : last.lines[i] \in {"whole", "fraction"})
           => LET Appended(m) ==
                      /\ m.ok
                      /\ m.return_value = Len(last.lines)
                      /\ csv_load(m.files[get_reminder_filename])
                             = [ok |-> TRUE,
                                reminders |->
                                    last.stored
                                        \o [i \in 1..Len(last.lines) |->
                                               BuiltinReminder(last.lines[i])]]
              IN  Appended(migrate_builtin(files, builtin_filename,
                                           get_reminder_filename))
    /\ (phase = "configured_up" /\ last.ev = "migrated")
           => /\ last.migrated = Len(last.lines)
              /\ Registry = last.stored
                                \o [i \in 1..Len(last.lines) |->
                                       BuiltinReminder(last.lines[i])]

\* A store of two reminders has been loaded after a migration of two lines.
MigrationAppendsWitness ==
    /\ phase = "configured_up"
    /\ last.ev = "migrated"
    /\ last.migrated = 2
    /\ last.lines = <<"fraction", "whole">>
    /\ Len(last.stored) = 2
    /\ Len(Registry) = 4
    /\ Registry[3] = BuiltinReminder("fraction")
    /\ backup_name \in DOMAIN files
    /\ builtin_filename \notin DOMAIN files

\* The reminders load_reminders finds in the store file as it is now.
StoreLoads ==
    csv_load(open_append(files, get_reminder_filename)[get_reminder_filename])

\* configure has returned, the migration having been accepted.
ConfiguredAccepting ==
    /\ phase \in {"configured", "configured_up"}
    /\ last.accepted

\* C21, as stated: after a configuration with the migration accepted, where
\* the database was absent or had no line, the count is 0, the reminders of
\* the store are unchanged, and the database has not been renamed.
NoRenameWhenNothingImported ==
    (ConfiguredAccepting /\ (~last.existed \/ last.lines = <<>>))
        => /\ last.migrated = 0
           /\ StoreLoads = [ok |-> TRUE, reminders |-> last.stored]
           /\ backup_name \notin DOMAIN files

\* C21, amended: in that case the count is 0 and the reminders of the store
\* are unchanged; the database is renamed exactly where it existed, also
\* when it had no line.
RenameAlsoWhenEmpty ==
    (ConfiguredAccepting /\ (~last.existed \/ last.lines = <<>>))
        => /\ last.migrated = 0
           /\ StoreLoads = [ok |-> TRUE, reminders |-> last.stored]
           /\ backup_name \in DOMAIN files <=> last.existed
           /\ builtin_filename \notin DOMAIN files

\* An empty database has been renamed by a configuration that imported
\* nothing into a store of two reminders.
RenameAlsoWhenEmptyWitness ==
    /\ phase = "configured"
    /\ last.ev = "migrated"
    /\ last.existed
    /\ last.lines = <<>>
    /\ last.migrated = 0
    /\ Len(last.stored) = 2
    /\ files[backup_name] = <<>>

Numerals ==
    {[text |-> <<"0">>, value |-> 0], [text |-> <<"5">>, value |-> 5],
     [text |-> <<"1", "2">>, value |-> 12]}

\* A leading component of unit u, and a later one: left out, or typed right
\* after what precedes it or after one whitespace.
Leading(u) == {[text |-> n.text \o <<u>>, value |-> n.value] : n \in Numerals}
Later(u) ==
    {[text |-> <<>>, value |-> 0]}
        \cup {[text |-> sep \o n.text \o <<u>>, value |-> n.value] :
                 sep \in {<<>>, <<" ">>}, n \in Numerals}

\* The durations of the four shapes, with the seconds they stand for.
Durations ==
    {[text |-> d.text \o h.text \o m.text \o sc.text,
      seconds |-> d.value * 86400 + h.value * 3600 + m.value * 60 + sc.value] :
         d \in Leading("d"), h \in Later("h"), m \in Later("m"), sc \in Later("s")}
    \cup {[text |-> h.text \o m.text \o sc.text,
           seconds |-> h.value * 3600 + m.value * 60 + sc.value] :
              h \in Leading("h"), m \in Later("m"), sc \in Later("s")}
    \cup {[text |-> m.text \o sc.text, seconds |-> m.value * 60 + sc.value] :
              m \in Leading("m"), sc \in Later("s")}
    \cup {[text |-> sc.text, seconds |-> sc.value] : sc \in Leading("s")}

InGaps == {<<" ">>, <<" ", "\t">>}
InMessages == {<<"x">>, <<"x", " ", " ", "y", " ">>, <<"1", "d", " ", "y">>}

\* A duration, whitespace and a message.
InValid ==
    {[kind |-> "valid", line |-> d.text \o gap \o message,
      seconds |-> d.seconds, message |-> message] :
         d \in Durations, gap \in InGaps, message \in InMessages}

\* A duration and nothing after it, or whitespace only.
InBare ==
    {[kind |-> "bare", line |-> d.text \o gap] :
         d \in Durations, gap \in {<<>>, <<" ">>, <<" ", " ">>}}

\* Two components typed with no separation, the second not a later unit of
\* the first; then whitespace and a message.
UnitRank(u) == CASE u = "d" -> 1 [] u = "h" -> 2 [] u = "m" -> 3 [] u = "s" -> 4
InUnordered ==
    UNION {{[kind |-> "unordered",
             line |-> a.text \o <<u>> \o b.text \o <<v>> \o <<" ", "x">>] :
                a \in Numerals, b \in Numerals,
                v \in {w \in {"d", "h", "m", "s"} : UnitRank(w) <= UnitRank(u)}} :
           u \in {"d", "h", "m", "s"}}

\* A duration with characters right after it that belong to no component;
\* then whitespace and a message.
InTrailing ==
    {[kind |-> "trailing", line |-> d.text \o junk \o <<" ", "x">>] :
         d \in {e \in Durations : Len(e.text) <= 3},
         junk \in {<<"2">>, <<"x">>, <<"d">>, <<":", "3", "0">>}}

\* Lines that begin with no component.
InShapeless ==
    {[kind |-> "shapeless", line |-> line] :
         line \in {<<>>, <<"x">>, <<"d", " ", "x">>, <<"5", " ", "x">>,
                   <<"5", "x", " ", "x">>, <<" ", "5", "s", " ", "x">>,
                   <<"-", "5", "s", " ", "x">>, <<"5", " ", "s", " ", "x">>,
                   <<"5", ".", "5", "s", " ", "x">>}}

InLines == InValid \cup InBare \cup InUnordered \cup InTrailing \cup InShapeless

\* A line of the "in" command is about to be parsed; `last` records how the
\* line was made.
InInit ==
    /\ phase = "in_init"
    /\ last \in {[ev |-> "line"] @@ made : made \in InLines}
    /\ memory = EmptyDict
    /\ files = EmptyDict
    /\ LOCK = Unlocked
    /\ clock = Epoch0
    /\ settled = FALSE
    /\ sent = <<>>
    /\ th = [t \in Threads |-> Free]
    /\ nextId = 1
    /\ added = {}
    /\ stored = {}
    /\ atCrash = {}
    /\ restarts = 0

\* parse_in_delta(line) is called: `last` records its result.
ParseIn ==
    /\ phase = "in_init"
    /\ phase' = "in_parsed"
    /\ last' = [ev |-> "parsed", result |-> parse_in_delta(last.line)] @@ last
    /\ UNCHANGED <<memory, files, LOCK, clock, settled, sent, th, histVars>>

InNext == ParseIn
InSpec == InInit /\ [][InNext]_vars

\* C23: for a line made of a duration of one of the four shapes, whitespace
\* and a message, parse_in_delta returns the seconds the duration stands
\* for, a component left out counting 0, and the message.
InDeltaAndTail ==
    (phase = "in_parsed" /\ last.kind = "valid")
        => last.result = [ok |-> TRUE, delta |-> last.seconds,
                          message |-> last.message]

\* "5d12h 0m 12s" followed by a message was parsed.
InDeltaAndTailWitness ==
    /\ phase = "in_parsed"
    /\ last.kind = "valid"
    /\ last.result.ok
    /\ last.result.delta = 5 * 86400 + 12 * 3600 + 12
    /\ last.result.message = <<"1", "d", " ", "y">>
    /\ last.line = <<"5", "d", "1", "2", "h", " ", "0", "m", " ", "1", "2", "s",
                     " ", "\t", "1", "d", " ", "y">>

\* C24: parse_in_delta raises for a line that begins with no component, for
\* components typed out of order with no separation, for a duration followed
\* by characters of no component, and for a duration with no message after
\* it, whitespace or not.
InRejects ==
    (phase = "in_parsed" /\ last.kind # "valid") => ~last.result.ok

(***************************************************************************)
(* parse_at_time over the lines of the "at" command                        *)
(***************************************************************************)
\* Dates as they are typed: whether the calendar has them, and the days from
\* 1970-01-01 to those it has.
AtDates ==
    {
     [text |-> <<"2", "0", "2", "3", "-", "0", "6", "-", "1", "6">>,
      valid |-> TRUE, day |-> 19524],
     [text |-> <<"2", "0", "2", "3", "-", "0", "6", "-", "1", "7">>,
      valid |-> TRUE, day |-> 19525],
     [text |-> <<"2", "0", "2", "3", "-", "0", "6", "-", "1", "8">>,
      valid |-> TRUE, day |-> 19526],
     [text |-> <<"2", "0", "2", "4", "-", "0", "2", "-", "2", "9">>,
      valid |-> TRUE, day |-> 19782],
     [text |-> <<"2", "0", "2", "4", "-", "0", "3", "-", "0", "1">>,
      valid |-> TRUE, day |-> 19783],
     [text |-> <<"2", "0", "2", "4", "-", "0", "2", "-", "3", "0">>,
      valid |-> FALSE, day |-> 0],
     [text |-> <<"2", "0", "2", "3", "-", "0", "2", "-", "2", "9">>,
      valid |-> FALSE, day |-> 0],
     [text |-> <<"2", "0", "2", "4", "-", "1", "3", "-", "0", "1">>,
      valid |-> FALSE, day |-> 0],
     [text |-> <<"2", "0", "2", "4", "-", "1", "2", "-", "3", "2">>,
      valid |-> FALSE, day |-> 0],
     [text |-> <<"2", "0", "2", "3", "-", "0", "6", "-", "0", "0">>,
      valid |-> FALSE, day |-> 0],
     [text |-> <<"0", "0", "0", "0", "-", "0", "1", "-", "0", "1">>,
      valid |-> FALSE, day |-> 0]}

\* Times as they are typed: whether the clock has them, their second of the
\* day, and whether the seconds are typed.
AtTimes ==
    {
     [text |-> <<"1", "1", ":", "2", "0">>,
      valid |-> TRUE, sod |-> 40800, seconds |-> FALSE],
     [text |-> <<"1", "1", ":", "2", "0", ":", "3", "0">>,
      valid |-> TRUE, sod |-> 40830, seconds |-> TRUE],
     [text |-> <<"0", "5", ":", "2", "0">>,
      valid |-> TRUE, sod |-> 19200, seconds |-> FALSE],
     [text |-> <<"0", "5", ":", "2", "0", ":", "3", "0">>,
      valid |-> TRUE, sod |-> 19230, seconds |-> TRUE],
     [text |-> <<"1", "0", ":", "1", "3", ":", "1", "0">>,
      valid |-> TRUE, sod |-> 36790, seconds |-> TRUE],
     [text |-> <<"1", "0", ":", "1", "3", ":", "1", "1">>,
      valid |-> TRUE, sod |-> 36791, seconds |-> TRUE],
     [text |-> <<"1", "0", ":", "1", "3">>,
      valid |-> TRUE, sod |-> 36780, seconds |-> FALSE],
     [text |-> <<"0", "0", ":", "0", "0">>,
      valid |-> TRUE, sod |-> 0, seconds |-> FALSE],
     [text |-> <<"2", "3", ":", "5", "9", ":", "5", "9">>,
      valid |-> TRUE, sod |-> 86399, seconds |-> TRUE],
     [text |-> <<"0", "1", ":", "5", "9", ":", "5", "9">>,
      valid |-> TRUE, sod |-> 7199, seconds |-> TRUE],
     [text |-> <<"2", "4", ":", "0", "0">>,
      valid |-> FALSE, sod |-> 0, seconds |-> FALSE],
     [text |-> <<"1", "0", ":", "6", "0">>,
      valid |-> FALSE, sod |-> 0, seconds |-> FALSE],
     [text |-> <<"1", "0", ":", "3", "0", ":", "6", "0">>,
      valid |-> FALSE, sod |-> 0, seconds |-> TRUE],
     [text |-> <<"2", "6", ":", "6", "1">>,
      valid |-> FALSE, sod |-> 0, seconds |-> FALSE]}

AtGaps == {<<" ">>, <<" ", "\t">>}
AtMessage == <<"x", " ", "5">>

\* A line of each of the four shapes, then whitespace and a message: what is
\* typed, whether date and time are valid, and the date and the second of
\* the day where they are typed.
AtTimeOnly ==
    {[kind |-> "t", line |-> t.text \o gap \o AtMessage, valid |-> t.valid,
      day |-> 0, sod |-> t.sod] : t \in AtTimes, gap \in AtGaps}
AtDateOnly ==
    {[kind |-> "d", line |-> d.text \o gap \o AtMessage, valid |-> d.valid,
      day |-> d.day, sod |-> 0] : d \in AtDates, gap \in AtGaps}
AtDateTime ==
    {[kind |-> "d_t", line |-> d.text \o <<" ">> \o t.text \o <<" ">> \o AtMessage,
      valid |-> d.valid /\ t.valid, day |-> d.day, sod |-> t.sod] :
         d \in AtDates, t \in AtTimes}
AtTimeDate ==
    {[kind |-> "t_d", line |-> t.text \o <<" ">> \o d.text \o <<" ">> \o AtMessage,
      valid |-> d.valid /\ t.valid, day |-> d.day, sod |-> t.sod] :
         d \in AtDates, t \in AtTimes}

\* Lines whose leading date or time has a wrong count of digits.
AtMisdigit ==
    {[kind |-> "misdigit", line |-> line, valid |-> FALSE, day |-> 0, sod |-> 0] :
        line \in {
            <<"5", " ", "x">>,
            <<"0", "5", ":", "0", " ", "x">>,
            <<"1", "2", "0", ":", "0", "0", " ", "x">>,
            <<"0", "1", ":", "1", "3", "0", " ", "x">>,
            <<"1", ":", "3", "0", " ", "x">>,
            <<"1", "0", ":", "3", "0", ":", "5", " ", "x">>,
            <<"1", "0", ":", "3", "0", ":", "1", "2", "3", " ", "x">>,
            <<"2", "0", "2", "3", "-", "6", "-", "1", "8", " ", "x">>,
            <<"2", "3", "-", "0", "6", "-", "1", "8", " ", "x">>,
            <<"2", "0", "2", "3", "-", "0", "6", "-", "1", "8", "1", " ", "x">>,
            <<"2", "0", "2", "3", "-", "0", "6", "-", "1", " ", "x">>,
            <<"2", "0", "2", "3", "0", "6", "1", "8", " ", "x">>,
            <<"1", "0", ":", "3", "0", ":", " ", "x">>}}

\* Lines whose second component has a wrong count of digits, after a valid
\* leading one.
AtMisdigitSecond ==
    {[kind |-> "misdigit_second", line |-> line, valid |-> FALSE, day |-> 0,
      sod |-> 0] :
        line \in {
            <<"2", "0", "2", "3", "-", "0", "6", "-", "1", "8", " ", "1", ":", "3", "0", " ", "x">>,
            <<"2", "0", "2", "3", "-", "0", "6", "-", "1", "8", " ", "1", "0", ":", "3", " ", "x">>,
            <<"2", "0", "2", "3", "-", "0", "6", "-", "1", "8", " ", "1", "1", ":", "2", "0", ":", "5", " ", "x">>,
            <<"1", "1", ":", "2", "0", " ", "2", "0", "2", "3", "-", "6", "-", "1", "8", " ", "x">>,
            <<"1", "1", ":", "2", "0", ":", "3", "0", " ", "2", "3", "-", "0", "6", "-", "1", "8", " ", "x">>}}

AtLines ==
    AtTimeOnly \cup AtDateOnly \cup AtDateTime \cup AtTimeDate \cup AtMisdigit
        \cup AtMisdigitSecond

\* 2024-02-28T23:59:59Z, the second reference instant.
LeapEve == DaysFromCivil(2024, 2, 28) * 86400 + 23 * 3600 + 59 * 60 + 59

AtNows == {Epoch0, LeapEve}
\* Timezones of the reference instant: UTC, and two hours east of it.
AtZones == {UTC, FixedZone(2 * 3600)}

\* A line of the "at" command is about to be parsed at the instant `clock`
\* in a timezone; `last` records the timezone and how the line was made.
AtInit ==
    /\ phase = "at_init"
    /\ clock \in AtNows
    /\ last \in {[ev |-> "line", tz |-> tz] @@ made : made \in AtLines, tz \in AtZones}
    /\ memory = EmptyDict
    /\ files = EmptyDict
    /\ LOCK = Unlocked
    /\ settled = FALSE
    /\ sent = <<>>
    /\ th = [t \in Threads |-> Free]
    /\ nextId = 1
    /\ added = {}
    /\ stored = {}
    /\ atCrash = {}
    /\ restarts = 0

\* parse_at_time(line, now) is called: `last` records its result.
ParseAt ==
    /\ phase = "at_init"
    /\ phase' = "at_parsed"
    /\ last' = [ev |-> "parsed",
                result |-> parse_at_time(last.line, clock, last.tz)] @@ last
    /\ UNCHANGED <<memory, files, LOCK, clock, settled, sent, th, histVars>>

AtNext == ParseAt
AtSpec == AtInit /\ [][AtNext]_vars

\* The date of the reference instant in its timezone, in days from
\* 1970-01-01, and its second of the day there.
ReferenceDay == (clock + utcoffset(last.tz, clock)) \div 86400
ReferenceSod == (clock + utcoffset(last.tz, clock)) % 86400

\* The instant a line stands for: its date, or the date of the reference
\* instant, at its time, or at the time of day of the reference instant.
Composed ==
    localize(last.tz,
             (IF last.kind = "t" THEN ReferenceDay ELSE last.day) * 86400
                 + (IF last.kind = "d" THEN ReferenceSod ELSE last.sod))

\* A line of one of the four shapes, with a valid date and time, was parsed.
ParsedValid(kinds) ==
    phase = "at_parsed" /\ last.kind \in kinds /\ last.valid

\* C25: a time-only line resolves to that time on the date of the reference
\* instant where this is after now, and to one day later where it is at or
\* before now; it is never refused.
TimeOnlyRolls ==
    ParsedValid({"t"})
        => last.result = [ok |-> TRUE,
                          when |-> IF Composed > clock THEN Composed
                                   ELSE Composed + 86400,
                          message |-> AtMessage]

\* "10:13:10" was parsed at 10:13:10 and resolved to the next day.
TimeOnlyRollsWitness ==
    /\ ParsedValid({"t"})
    /\ clock = Epoch0
    /\ last.tz = UTC
    /\ Composed = clock
    /\ last.result.ok
    /\ last.result.when = Epoch0 + 86400

\* C26: a date-only, date-then-time or time-then-date line whose instant is
\* at or before now is refused.
PastIsRefused ==
    (ParsedValid({"d", "d_t", "t_d"}) /\ Composed <= clock) => ~last.result.ok

\* A date-only line for the date of the reference instant was refused.
PastIsRefusedWitness ==
    /\ ParsedValid({"d"})
    /\ last.day = ReferenceDay
    /\ Composed = clock
    /\ last.tz # UTC
    /\ ~last.result.ok

\* C27: a line whose date or time is not a calendar value, or has a wrong
\* count of digits, is refused.
InvalidIsRefused ==
    (phase = "at_parsed" /\ ~last.valid) => ~last.result.ok

\* C28: a date-only line resolves to its date at the time of day of the
\* reference instant, a date-then-time and a time-then-date line to their
\* date and time, seconds that are not typed counting 0.
DateComposes ==
    (ParsedValid({"d", "d_t", "t_d"}) /\ Composed > clock)
        => last.result = [ok |-> TRUE, when |-> Composed, message |-> AtMessage]

\* "11:20 2024-02-29" was parsed two hours east of UTC.
DateComposesWitness ==
    /\ ParsedValid({"t_d"})
    /\ last.tz = FixedZone(2 * 3600)
    /\ last.day = 19782
    /\ last.sod = 11 * 3600 + 20 * 60
    /\ last.result.ok
    /\ last.result.when = 19782 * 86400 + 11 * 3600 + 20 * 60 - 2 * 3600

(***************************************************************************)
(* The registry and the store over sweeps and adds                         *)
(***************************************************************************)
\* a is b with some of its elements left out, the others in their order.
RECURSIVE IsSubsequence(_, _)
IsSubsequence(a, b) ==
    IF a = <<>> THEN TRUE
    ELSE IF b = <<>> THEN FALSE
    ELSE IF Head(a) = Head(b) THEN IsSubsequence(Tail(a), Tail(b))
    ELSE IsSubsequence(a, Tail(b))

\* C29: when a sweep ends, by its last statement or by a send that raises,
\* the registry is a subsequence of the registry the sweep started from, and
\* the sends the sweep made are as many as the reminders it removed.
SweepRemovesWhatItSends ==
    [][\A t \in Threads :
          (\/ SweepEnds(t)
           \/ last'.ev = "send_raised" /\ last'.t = t)
              => /\ IsSubsequence(Registry', th[t].reminders)
                 /\ Len(last'.delivered)
                        = Len(th[t].reminders) - Len(Registry')]_vars

\* C30: while the process is up and no handler or job is running, the store
\* file holds the rows of the registry, in order.
StoreMirrorsRegistry ==
    (phase = "up" /\ \A t \in Threads : th[t].pc = "idle")
        => StoreRows = RowsOf(Registry)

\* Two adds and a sweep that sent one of the two reminders have completed.
StoreMirrorsRegistryWitness ==
    /\ phase = "up"
    /\ \A t \in Threads : th[t].pc = "idle"
    /\ restarts = 0
    /\ Cardinality(added) = 2
    /\ Len(sent) = 1
    /\ Len(Registry) = 1
    /\ StoreRows = RowsOf(Registry)

(***************************************************************************)
(* parse_at_time in a timezone that changes its UTC offset                 *)
(***************************************************************************)
\* Europe/Paris around the end of summer time in 2023: two hours east of UTC
\* up to 2023-10-29T01:00:00Z, and one hour east of UTC from then on.
Paris ==
    [before |-> 2 * 3600, after |-> 3600,
     at |-> DaysFromCivil(2023, 10, 29) * 86400 + 3600]

\* 2023-10-29T22:30:00Z, 23:30 in Paris on the day that lasts 25 hours.
FallBackNight == DaysFromCivil(2023, 10, 29) * 86400 + 22 * 3600 + 30 * 60

DstNows == AtNows \cup {FallBackNight}
DstZones == AtZones \cup {Paris}

\* A line of the "at" command is about to be parsed at the instant `clock`
\* in a timezone that may change its offset.
DstInit ==
    /\ phase = "at_init"
    /\ clock \in DstNows
    /\ last \in {[ev |-> "line", tz |-> tz] @@ made : made \in AtLines, tz \in DstZones}
    /\ memory = EmptyDict
    /\ files = EmptyDict
    /\ LOCK = Unlocked
    /\ settled = FALSE
    /\ sent = <<>>
    /\ th = [t \in Threads |-> Free]
    /\ nextId = 1
    /\ added = {}
    /\ stored = {}
    /\ atCrash = {}
    /\ restarts = 0

DstNext == ParseAt
DstSpec == DstInit /\ [][DstNext]_vars

\* C34: every instant that parse_at_time returns is strictly after the
\* reference instant now.
ReturnedIsAfterNow ==
    (phase = "at_parsed" /\ last.result.ok) => last.result.when > clock

(***************************************************************************)
(* The lock over handlers that raise                                       *)
(***************************************************************************)
\* Adds over a whole behaviour in which sends and file writes raise.
MaxLockAdds == 1

\* save_reminders raises inside `with LOCK:` (open or writerow fails with
\* OSError): nothing catches the exception, so it leaves the with block of
\* the command or of the job, which releases the lock, and ends the handler.
SaveRaises(t) ==
    /\ th[t].pc \in {"save_open", "save_write"}
    /\ th[t].op \in {"in", "at", "job"}
    /\ LOCK' = Release(t)
    /\ th' = [th EXCEPT ![t] = Free]
    /\ last' = [ev |-> "write_raised", t |-> t]
    /\ UNCHANGED <<phase, memory, files, clock, sent, settled, histVars>>

\* A send or a file write of thread t raises.
Raises(t) ==
    \/ \E channels \in ChannelStates, users \in SUBSET Nicks :
          JobStepRaises(t, channels, users)
    \/ SaveRaises(t)

\* The process stays up and runs "in" commands and the job; sends and file
\* writes may raise.
LockNext ==
    \/ Setup
    \/ Tick
    \/ \E t \in Threads :
          \/ nextId <= MaxLockAdds
                /\ \E trigger \in Triggers(InSenders, InArgs) : remind_in(t, trigger)
          \/ Ticking
          \/ Running(t)
          \/ Raises(t)

\* A thread that has started a handler or a sweep goes on with it, and a
\* thread that waits for the lock gets it when it is free again and again.
LockSpec ==
    /\ Init
    /\ [][LockNext]_vars
    /\ \A t \in Threads : SF_vars(Running(t) \/ Raises(t))

\* C33: a thread that runs no handler does not own the lock, also after a
\* send or a file write of its handler raised; a sweep or an add that waits
\* for the lock eventually owns it, and a thread that owns the lock
\* eventually has left its handler.
LockNeverBlocks ==
    /\ [](\A t \in Threads : th[t].pc = "idle" => LOCK.owner # t)
    /\ \A t \in Threads : (th[t].pc \in {"store", "lock"}) ~> (LOCK.owner = t)
    /\ \A t \in Threads : (LOCK.owner = t) ~> (th[t].pc = "idle" /\ LOCK.owner # t)

\* A file write has just raised while a sweep waits for the lock,
\* which is free.
LockNeverBlocksWitness ==
    /\ last.ev = "write_raised"
    /\ LOCK = Unlocked
    /\ \E t \in Threads : th[t].pc = "lock"

(***************************************************************************)
(* An add that re-enters a sweep                                           *)
(***************************************************************************)
\* While the sweep on thread t delivers, the same thread runs remind_in to
\* its end (a side effect of the send): the command parses, `with LOCK:` is
\* entered a second time by the thread that owns the RLock, store appends the
\* reminder to the registry and saves it, the block is left, which gives
\* the lock back to the sweep, and the command replies.
ReentrantAdd(t, trigger) ==
    /\ th[t].op = "job"
    /\ th[t].pc = "loop"
    /\ th[t].delivered # <<>>
    /\ LOCK.owner = t
    /\ CanAcquire(t)
    /\ nextId <= MaxAdds
    /\ trigger.args # None
    /\ LET Stored(reminder) ==
               /\ memory' = [memory EXCEPT ![MEMORY_KEY] = Append(@, reminder)]
               /\ files' = (get_reminder_filename :> RowsOf(memory'[MEMORY_KEY]))
                               @@ files
               /\ stored' = Rids(memory'[MEMORY_KEY])
               /\ added' = added \cup {reminder.rid}
               /\ last' = [ev |-> "reentered", t |-> t,
                           replies |-> <<Confirmation(reminder)>>]
           HandleIn(parsed) ==
               /\ parsed.ok
               /\ Stored(build_reminder(trigger, parsed.delta, parsed.message, nextId))
       IN  HandleIn(parse_in_delta(trigger.args))
    /\ nextId' = nextId + 1
    /\ UNCHANGED <<phase, LOCK, clock, sent, th, settled, atCrash, restarts>>

\* The process stays up, and an add may re-enter a sweep.
ReentrantNext ==
    \/ Setup
    \/ Tick
    \/ \E t \in Threads :
          \/ Handlers(t)
          \/ \E trigger \in Triggers(InSenders, InArgs) : ReentrantAdd(t, trigger)

ReentrantSpec == Init /\ [][ReentrantNext]_vars

\* C32: when a sweep ends, every reminder whose add completed, that the
\* sweep did not start from and that was not sent (a reminder added while
\* the sweep held the lock) is in the registry and in the store.
ReentrantAddKept ==
    [][\A t \in Threads :
          SweepEnds(t)
              => \A rid \in added \ (SentRids \cup Rids(th[t].reminders)) :
                    /\ rid \in Rids(Registry')
                    /\ rid \in Rids(StoreRows')]_vars

(***************************************************************************)
(* shutdown while a sweep or an add runs                                   *)
(***************************************************************************)
\* shutdown(bot) is called while a handler or a sweep runs on another
\* thread: it takes no lock, and save_reminders is called with
\* bot.memory.get(MEMORY_KEY) or [], the list object of the registry where
\* it is not empty.
ShutdownAmid(t) ==
    /\ phase = "up"
    /\ th[t].pc = "idle"
    /\ \A u \in Threads : th[u].op # "shutdown"
    /\ \E u \in Threads : th[u].pc # "idle"
    /\ th' = [th EXCEPT ![t] = [Free EXCEPT
                                   !.op = "shutdown", !.pc = "save_open",
                                   !.saving = memory_get_or_empty(memory),
                                   !.writes = 1]]
    /\ last' = Quiet
    /\ UNCHANGED <<phase, memory, files, LOCK, clock, sent, settled, histVars>>

\* The save_reminders of shutdown on thread u iterates the list object that
\* bot.memory holds: a non-empty list (an empty one is replaced by a new []),
\* equal to the registry, reminders being unique.
SavesRegistry(u) ==
    /\ th[u].op = "shutdown"
    /\ th[u].saving # <<>>
    /\ MEMORY_KEY \in DOMAIN memory
    /\ th[u].saving = memory[MEMORY_KEY]

\* store(bot, reminder) under `with LOCK:` while shutdown may run: as Store,
\* and the append is seen by a save_reminders of shutdown that iterates the
\* same list object.
StoreAmid(t) ==
    /\ th[t].pc = "store"
    /\ CanAcquire(t)
    /\ IF MEMORY_KEY \in DOMAIN memory
       THEN /\ LOCK' = Acquire(t)
            /\ memory' = [memory EXCEPT ![MEMORY_KEY] = Append(@, th[t].reminder)]
            /\ th' = [u \in Threads |->
                         IF u = t
                         THEN [th[t] EXCEPT !.pc = "save_open",
                                            !.saving = memory'[MEMORY_KEY],
                                            !.writes = @ + 1]
                         ELSE IF SavesRegistry(u)
                         THEN [th[u] EXCEPT !.saving = memory'[MEMORY_KEY]]
                         ELSE th[u]]
            /\ last' = Quiet
       ELSE /\ th' = [th EXCEPT ![t] = Free]
            /\ last' = [ev |-> "raised"]
            /\ UNCHANGED <<LOCK, memory>>
    /\ UNCHANGED <<phase, files, clock, sent, settled, histVars>>

\* shutdown(bot) after its save: del bot.memory[MEMORY_KEY], and shutdown
\* returns; the handlers that run go on, and no new one is started.
ShutdownReturns(t) ==
    /\ SaveFinished(t)
    /\ th[t].op = "shutdown"
    /\ phase' = "stopping"
    /\ memory' = [k \in DOMAIN memory \ {MEMORY_KEY} |-> memory[k]]
    /\ th' = [th EXCEPT ![t] = Free]
    /\ last' = [ev |-> "stopped", flushed |-> th[t].saving]
    /\ UNCHANGED <<files, LOCK, clock, sent, settled, histVars>>

\* The plugin is set up, handlers and sweeps run, and shutdown is called
\* while one of them runs.
StoppingNext ==
    \/ Setup
    \/ Tick
    \/ \E t \in Threads :
          \/ \E trigger \in Triggers(InSenders, InArgs) : remind_in(t, trigger)
          \/ StoreAmid(t)
          \/ StoreDone(t)
          \/ \E connected, connection_registered \in BOOLEAN :
                JobBegin(t, connected, connection_registered)
          \/ JobLock(t)
          \/ \E channels \in ChannelStates, users \in SUBSET Nicks :
                JobStep(t, channels, users)
          \/ JobCommit(t)
          \/ JobDone(t)
          \/ SaveOpen(t)
          \/ SaveWrite(t)
          \/ ShutdownAmid(t)
          \/ ShutdownReturns(t)

StoppingSpec == Init /\ [][StoppingNext]_vars

\* C31: no two threads have the store file open for writing at the same
\* time; and once
\* shutdown has returned and every handler and sweep has finished, the
\* store holds no reminder that was sent and holds every reminder whose add
\* completed and that was not sent.
ShutdownConsistent ==
    /\ Cardinality({t \in Threads : th[t].pc = "save_write"}) <= 1
    /\ (phase = "stopping" /\ \A t \in Threads : th[t].pc = "idle")
          => /\ Rids(StoreRows) \cap SentRids = {}
             /\ \A rid \in added \ SentRids : rid \in Rids(StoreRows)

=============================================================================
